---------------------------- MODULE Spec2Model ----------------------------
(***************************************************************************)
(* A model of libfailinj (src/libfailinj.c): the LD_PRELOAD library that   *)
(* fails every call site of a wrapped libc primitive once over a series of *)
(* runs and audits the program for leaks and untracked releases.           *)
(*                                                                         *)
(* Conventions                                                             *)
(*  - text is a sequence of character codes (ASCII), so that strstr,       *)
(*    strtok, strtol, snprintf("%lx") and the djb fold are computed, not   *)
(*    assumed;                                                             *)
(*  - an unsigned long long is a tuple of four 16-bit limbs, least         *)
(*    significant first, so that the 64-bit wrap of the hash is kept;      *)
(*  - a hash table is a function from bucket index to the bucket's chain   *)
(*    (a sequence of entries, head first); buckets that no key of the      *)
(*    model maps to are left out, they stay empty throughout;              *)
(*  - exit() is the glibc one: a nested exit() made from a destructor      *)
(*    runs the remaining handlers and its status is the process status.    *)
(***************************************************************************)
EXTENDS Integers, Sequences, FiniteSets, TLC

(***************************************************************************)
(* 64-bit unsigned arithmetic on limbs                                     *)
(***************************************************************************)
LimbBase == 65536

U64(n) ==
  IF n >= 0
    THEN << n % LimbBase, (n \div LimbBase) % LimbBase, 0, 0 >>
    ELSE \* sign extension of a negative int (two's complement)
         LET m == (n + 2147483647) + 1   \* n + 2^31, in 0 .. 2^31-1
         IN  << m % LimbBase, ((m \div LimbBase) % 32768) + 32768,
                LimbBase - 1, LimbBase - 1 >>

RECURSIVE XorBits(_, _, _)
XorBits(a, b, n) ==
  IF n = 0 THEN 0
  ELSE (((a % 2) + (b % 2)) % 2) + 2 * XorBits(a \div 2, b \div 2, n - 1)

\* hash * 33 modulo 2^64
Mul33(h) ==
  LET p0 == h[1] * 33
      p1 == h[2] * 33 + (p0 \div LimbBase)
      p2 == h[3] * 33 + (p1 \div LimbBase)
      p3 == h[4] * 33 + (p2 \div LimbBase)
  IN  << p0 % LimbBase, p1 % LimbBase, p2 % LimbBase, p3 % LimbBase >>

\* hash ^ c for a character code c in 0 .. 127 (a non-negative char)
XorChar(h, c) == << XorBits(h[1], c, 16), h[2], h[3], h[4] >>

\* size_t arithmetic: a + b, ~a, a - b and a * b modulo 2^64, and a < b
Add64(a, b) ==
  LET s1 == a[1] + b[1]
      s2 == a[2] + b[2] + (s1 \div LimbBase)
      s3 == a[3] + b[3] + (s2 \div LimbBase)
      s4 == a[4] + b[4] + (s3 \div LimbBase)
  IN  << s1 % LimbBase, s2 % LimbBase, s3 % LimbBase, s4 % LimbBase >>

Not64(a) == [i \in 1 .. 4 |-> (LimbBase - 1) - a[i]]

Sub64(a, b) == Add64(a, Add64(Not64(b), << 1, 0, 0, 0 >>))

Lt64(a, b) ==
  \E i \in 1 .. 4 : a[i] < b[i] /\ \A j \in (i + 1) .. 4 : a[j] = b[j]

\* the eight bytes of a, lowest first
Bytes64(a) ==
  [i \in 0 .. 7 |-> IF i % 2 = 0 THEN a[(i \div 2) + 1] % 256
                    ELSE a[(i \div 2) + 1] \div 256]

\* the sum of the byte products of weight 256^k, from index i on
RECURSIVE ColSum(_, _, _, _)
ColSum(A, B, k, i) ==
  IF i > k THEN 0 ELSE A[i] * B[k - i] + ColSum(A, B, k, i + 1)

RECURSIVE MulCols(_, _, _, _)
MulCols(A, B, k, carry) ==
  IF k = 8 THEN << >>
  ELSE << (ColSum(A, B, k, 0) + carry) % 256 >>
         \o MulCols(A, B, k + 1, (ColSum(A, B, k, 0) + carry) \div 256)

FromBytes64(c) ==
  << c[1] + 256 * c[2], c[3] + 256 * c[4], c[5] + 256 * c[6],
     c[7] + 256 * c[8] >>

Mul64(a, b) == FromBytes64(MulCols(Bytes64(a), Bytes64(b), 0, 0))

\* (int)a: the low 32 bits of a as a signed int
Int32(a) ==
  IF a[2] >= 32768 THEN (a[2] - LimbBase) * LimbBase + a[1]
  ELSE a[2] * LimbBase + a[1]

HASH_INIT == << 10325, 821, 0, 0 >>     \* 53815381 = 0x03352855

HASH_TABLE_SIZE == 1024

\* the loop of djb_hash, as a function so that each step is computed before
\* the next one starts
djb_loop[inp \in Seq(Nat), hash \in Seq(Nat)] ==
  IF inp = << >> THEN hash
  ELSE djb_loop[Tail(inp), XorChar(Mul33(hash), Head(inp))]

djb_hash(inp, hash) == djb_loop[inp, hash]

(***************************************************************************)
(* Text                                                                    *)
(***************************************************************************)
\* the null pointer.  A text that may be absent (an environment variable, a
\* backtrace) is NULL or << t >>.
NULL == << >>

\* strstr(hay, needle) != NULL
strstr(hay, needle) ==
  \E i \in 0 .. (Len(hay) - Len(needle)) :
     SubSeq(hay, i + 1, i + Len(needle)) = needle

HexDigit(d) == IF d < 10 THEN 48 + d ELSE 87 + d     \* '0'.. '9', 'a' .. 'f'

RECURSIVE ToHex(_)
ToHex(n) ==
  IF n < 16 THEN << HexDigit(n) >>
  ELSE ToHex(n \div 16) \o << HexDigit(n % 16) >>

t_plus0x  == << 43, 48, 120 >>                       \* "+0x"
t_unknown == << 117, 110, 107, 110, 111, 119, 110 >> \* "unknown"
t_gcov    == << 103, 99, 111, 118, 95, 100, 111, 95, 100, 117, 109, 112 >>
t_indent  == << 32, 32, 32, 32 >>                    \* "    "
t_nl      == << 10 >>
t_main    == << 109, 97, 105, 110 >>                 \* "main"
t_run     == << 114, 117, 110 >>                     \* "run"
t_ru      == << 114, 117 >>                          \* "ru"
t_io      == << 105, 111 >>                          \* "io"
t_io_run  == << 105, 111, 32, 114, 117, 110 >>       \* "io run"
t_doalloc == << 95, 73, 79, 95, 102, 105, 108, 101, 95, 100, 111, 97, 108,
                108, 111, 99, 97, 116, 101 >>        \* "_IO_file_doallocate"
t_fopen   == << 102, 111, 112, 101, 110 >>           \* "fopen"

(***************************************************************************)
(* The stack unwinder (libunwind): a stack is the frames unw_step yields,  *)
(* innermost first.  ok is FALSE when unw_get_proc_name fails; off is then *)
(* what the variable off holds after the failed call.                      *)
(***************************************************************************)
Frame(name, off) == [ok |-> TRUE, name |-> name, off |-> off]
NoName(off)      == [ok |-> FALSE, name |-> << >>, off |-> off]

SiteA == << Frame(t_run, 8), Frame(t_main, 26) >>
SiteC == << NoName(0), Frame(t_main, 60) >>

Stacks == { SiteA, SiteC }

(***************************************************************************)
(* The hash tables                                                         *)
(***************************************************************************)
Slot(hash) == hash[1] % HASH_TABLE_SIZE              \* hash & HASH_TABLE_MASK

Entry(hash, backtrace) == [hash |-> hash, backtrace |-> backtrace]

\* hash_entry after create_hash_entry(): next NULL, backtrace NULL, HASH_INIT
create_hash_entry == Entry(HASH_INIT, NULL)

ChainHas(chain, hash) == \E i \in 1 .. Len(chain) : chain[i].hash = hash

ChainIndex(chain, hash) ==
  CHOOSE i \in 1 .. Len(chain) :
     /\ chain[i].hash = hash
     /\ \A j \in 1 .. (i - 1) : chain[j].hash # hash

RemoveAt(chain, i) == SubSeq(chain, 1, i - 1) \o SubSeq(chain, i + 1, Len(chain))

\* hash_table_insert that does not look for an equal hash in the chain
hash_table_insert_always(n, table) ==
  [ret |-> 1, table |-> [table EXCEPT ![Slot(n.hash)] = Append(@, n)]]

\* an insert that pushes the entry on its chain without walking the chain
hash_table_insert_push(n, table) ==
  [ret |-> 1, table |-> [table EXCEPT ![Slot(n.hash)] = << n >> \o @]]

hash_table_insert(n, table) ==
  IF ChainHas(table[Slot(n.hash)], n.hash)
    THEN [ret |-> 0, table |-> table]
    ELSE [ret |-> 1, table |-> [table EXCEPT ![Slot(n.hash)] = Append(@, n)]]

\* a pop that unlinks the entry together with the entries chained after it
hash_table_pop_chain(hash, table) ==
  IF ChainHas(table[Slot(hash)], hash)
    THEN [ret |-> table[Slot(hash)][ChainIndex(table[Slot(hash)], hash)],
          table |-> [table EXCEPT ![Slot(hash)] =
                       SubSeq(@, 1, ChainIndex(@, hash) - 1)]]
    ELSE [ret |-> NULL, table |-> table]

hash_table_pop(hash, table) ==
  LET chain == table[Slot(hash)]
  IN  IF ChainHas(chain, hash)
        THEN LET i == ChainIndex(chain, hash)
             IN  [ret |-> chain[i],
                  table |-> [table EXCEPT ![Slot(hash)] = RemoveAt(chain, i)]]
        ELSE [ret |-> NULL, table |-> table]

RECURSIVE ChainHashes(_)
ChainHashes(chain) ==
  IF chain = << >> THEN {} ELSE { Head(chain).hash } \cup ChainHashes(Tail(chain))

\* the hashes held by a table
Hashes(table) == UNION { ChainHashes(table[b]) : b \in DOMAIN table }

(***************************************************************************)
(* Fingerprint and backtrace of the current stack                          *)
(***************************************************************************)
\* the text of a frame without its offset
FrameText_symbol(f) == f.name

\* snprintf(name + strlen(name), ..., "+0x%lx", off)
FrameText(f) == f.name \o t_plus0x \o ToHex(f.off)

\* the loop of get_current_callsite; NULL is the skip exit
RECURSIVE callsite_walk(_, _, _)
callsite_walk(skip, frames, hash) ==
  IF frames = << >> THEN hash
  ELSE LET f == Head(frames)
       IN  IF ~f.ok
             THEN callsite_walk(skip, Tail(frames), djb_hash(t_unknown, hash))
           ELSE IF skip # NULL /\ strstr(skip[1], f.name) THEN NULL
           ELSE IF f.name = t_gcov THEN NULL
           ELSE callsite_walk(skip, Tail(frames), djb_hash(FrameText(f), hash))

\* get_backtrace_string: "    %s+0x%lx\n" per frame
RECURSIVE get_backtrace_string(_)
get_backtrace_string(frames) ==
  IF frames = << >> THEN << >>
  ELSE LET f == Head(frames)
           name == IF f.ok THEN f.name ELSE t_unknown
       IN  t_indent \o name \o t_plus0x \o ToHex(f.off) \o t_nl
             \o get_backtrace_string(Tail(frames))

\* the fingerprint of a stack that is not skipped
Fingerprint(frames) == callsite_walk(NULL, frames, HASH_INIT)

(***************************************************************************)
(* Environment variables (names without the FAILINJ_ prefix); a value is   *)
(* << text >>, or NULL when the variable is unset.                         *)
(***************************************************************************)
IsSpace(c) == c = 32 \/ (c >= 9 /\ c <= 13)

DigitVal(c) ==
  IF c >= 48 /\ c <= 57 THEN c - 48
  ELSE IF c >= 97 /\ c <= 122 THEN c - 87
  ELSE IF c >= 65 /\ c <= 90 THEN c - 55
  ELSE 99

RECURSIVE SkipSpaces(_, _)
SkipSpaces(t, i) ==
  IF i <= Len(t) /\ IsSpace(t[i]) THEN SkipSpaces(t, i + 1) ELSE i

\* digits of the base from position i on: [val, end], end the first position
\* not consumed
RECURSIVE Digits(_, _, _, _)
Digits(t, i, base, acc) ==
  IF i <= Len(t) /\ DigitVal(t[i]) < base
    THEN Digits(t, i + 1, base, acc * base + DigitVal(t[i]))
    ELSE [val |-> acc, end |-> i]

\* d is what Digits found from position start on
strtol_conv(d, start, neg) ==
  IF d.end = start THEN [val |-> 0, end |-> 0]
  ELSE [val |-> IF neg THEN 0 - d.val ELSE d.val, end |-> d.end - 1]

\* base 0: a 0x prefix before a hex digit is base 16, a leading 0 is base 8
strtol_base(t, i, neg) ==
  IF /\ i + 2 <= Len(t)
     /\ t[i] = 48
     /\ (t[i + 1] = 120 \/ t[i + 1] = 88)
     /\ DigitVal(t[i + 2]) < 16
    THEN strtol_conv(Digits(t, i + 2, 16, 0), i + 2, neg)
  ELSE IF i <= Len(t) /\ t[i] = 48
    THEN strtol_conv(Digits(t, i, 8, 0), i, neg)
  ELSE strtol_conv(Digits(t, i, 10, 0), i, neg)

strtol_sign(t, i) ==
  IF i <= Len(t) /\ t[i] = 45 THEN strtol_base(t, i + 1, TRUE)
  ELSE IF i <= Len(t) /\ t[i] = 43 THEN strtol_base(t, i + 1, FALSE)
  ELSE strtol_base(t, i, FALSE)

\* strtol(t, &end, 0): val is the result, end the number of characters
\* consumed (0 when no conversion is made, end == t)
strtol(t) == strtol_sign(t, SkipSpaces(t, 1))

\* exit(err): the status the parent sees is err & 0377
ExitStatus(err) == err % 256

\* the test of end without "*end == '\0'"
exit_code_partial(tmp, len, err) == IF tmp.end # 0 THEN tmp.val ELSE err

\* if (end != errstr && *end == '\0') err = tmp;
exit_code(tmp, len, err) ==
  IF tmp.end # 0 /\ tmp.end = len THEN tmp.val ELSE err

__exit_error(s, envname, err) ==
  [s EXCEPT !.exiting = TRUE,
            !.code = IF s.env[envname] = NULL THEN ExitStatus(err)
                     ELSE ExitStatus(exit_code(strtol(s.env[envname][1]),
                                               Len(s.env[envname][1]), err))]

\* every caller prints its message (perror or fprintf) first
exit_error(s) ==
  __exit_error([s EXCEPT !.stderr = Append(@, [msg |-> "internal error",
                                               hash |-> NULL])],
               "EXIT_ERROR", 32)

(***************************************************************************)
(* The database file                                                       *)
(***************************************************************************)
\* the fread loop leaving after the first record
load_loop_first(records, table) ==
  IF records = << >> THEN table
  ELSE hash_table_insert(Entry(Head(records), NULL), table).table

\* the fread loop without the break on a repeated zero record
RECURSIVE load_loop_nobreak(_, _)
load_loop_nobreak(records, table) ==
  IF records = << >> THEN table
  ELSE load_loop_nobreak(Tail(records),
                         hash_table_insert(Entry(Head(records), NULL),
                                           table).table)

\* the fread loop of load_database over the records not yet read; h is the
\* spare entry, whose hash field fread overwrites
RECURSIVE load_loop(_, _)
load_loop(records, table) ==
  IF records = << >> THEN table                       \* read != 1: end of file
  ELSE LET ins == hash_table_insert(Entry(Head(records), NULL), table)
       IN  IF ins.ret = 0 /\ Head(records) = U64(0)
             THEN ins.table                            \* break on repeated zero
             ELSE load_loop(Tail(records), ins.table)

\* load_database that opens the file and reads nothing
load_database_noload(s, fault) ==
  IF fault \in { "db_fopen", "load_entry", "db_fread" } THEN exit_error(s)
  ELSE [s EXCEPT !.dbf = << "failinj.db" >>]

\* fault names the engine's own call that fails in this handler
load_database(s, fault) ==
  IF fault = "db_fopen" THEN exit_error(s)
  ELSE IF fault = "load_entry" THEN exit_error(s)
  ELSE IF fault = "db_fread" THEN exit_error(s)
  ELSE [s EXCEPT !.dbf = << "failinj.db" >>,
                 !.callsite_table = load_loop(s.db, s.callsite_table)]

\* write_callsite whose fwrite writes no record
write_callsite_lost(s, fault, h) ==
  IF fault \in { "db_fwrite", "db_fflush_lost", "db_fflush_late" }
    THEN exit_error(s)
    ELSE s

\* write_callsite on a stream opened for writing from the start of the file
write_callsite_rewrite(s, fault, h) ==
  IF fault \in { "db_fwrite", "db_fflush_lost", "db_fflush_late" }
    THEN exit_error(s)
    ELSE [s EXCEPT !.db = << h.hash >>]

write_callsite(s, fault, h) ==
  IF fault = "db_fwrite" THEN exit_error(s)
  ELSE IF fault = "db_fflush_lost" THEN exit_error(s)
  ELSE IF fault = "db_fflush_late"
    THEN \* the record stays in the stream buffer and exit() flushes it
         exit_error([s EXCEPT !.db = Append(@, h.hash)])
  ELSE [s EXCEPT !.db = Append(@, h.hash)]

\* NULL is the skip exit
\* get_current_callsite without the test of FAILINJ_SKIP_INJECTION
get_current_callsite_noskip(s, frames) == Entry(Fingerprint(frames), NULL)

get_current_callsite(s, frames) ==
  IF callsite_walk(s.env["SKIP_INJECTION"], frames, HASH_INIT) = NULL
    THEN NULL
    ELSE Entry(callsite_walk(s.env["SKIP_INJECTION"], frames, HASH_INIT), NULL)

\* [st, ret]: the state after a call and the value it returns; when
\* st.exiting the call did not return
Ret(st, ret) == [st |-> st, ret |-> ret]

\* out: force_libc = false; return ret;
should_fail_out(s, ret) ==
  IF s.exiting THEN Ret(s, FALSE)
  ELSE Ret([s EXCEPT !.force_libc = FALSE], ret)

\* should_fail_written without "has_failed = true"
should_fail_written_nolatch(s) ==
  IF s.exiting THEN Ret(s, FALSE)
  ELSE should_fail_out([s EXCEPT !.stderr = Append(@, [msg |-> "Injecting failure",
                                                       hash |-> NULL])], TRUE)

\* print_injection(); has_failed = true;  s is the state write_callsite left
should_fail_written(s) ==
  IF s.exiting THEN Ret(s, FALSE)
  ELSE should_fail_out([s EXCEPT !.stderr = Append(@, [msg |-> "Injecting failure",
                                                       hash |-> NULL]),
                                 !.has_failed = TRUE], TRUE)

\* should_fail_insert that fails the call without writing the record
should_fail_insert_unwritten(s, fault, h, ins) ==
  IF ins.ret = 0 THEN should_fail_out(s, FALSE)
  ELSE should_fail_written([s EXCEPT !.callsite_table = ins.table])

\* ret = hash_table_insert(h, callsite_table); if (!ret) free(h); else ...
should_fail_insert(s, fault, h, ins) ==
  IF ins.ret = 0 THEN should_fail_out(s, FALSE)
  ELSE should_fail_written(
         write_callsite([s EXCEPT !.callsite_table = ins.table], fault, h))

\* should_fail_callsite with has_failed raised on the skip exit too
should_fail_callsite_latch(s, fault, h) ==
  IF h = NULL THEN should_fail_out([s EXCEPT !.has_failed = TRUE], FALSE)
  ELSE should_fail_insert(s, fault, h, hash_table_insert(h, s.callsite_table))

\* h = get_current_callsite(); if (!h) goto out;
should_fail_callsite(s, fault, h) ==
  IF h = NULL THEN should_fail_out(s, FALSE)
  ELSE should_fail_insert(s, fault, h, hash_table_insert(h, s.callsite_table))

\* s is the state after "if (!dbf) dbf = load_database();"; the fault
\* "callsite_entry" is create_hash_entry failing in get_current_callsite
should_fail_loaded(s, fault, frames) ==
  IF s.exiting THEN Ret(s, FALSE)
  ELSE IF fault = "callsite_entry" THEN Ret(exit_error(s), FALSE)
  ELSE should_fail_callsite(s, fault, get_current_callsite(s, frames))

\* should_fail without the test of has_failed
should_fail_untested(s, fault, frames) ==
  IF s.dbf = NULL
    THEN should_fail_loaded(load_database([s EXCEPT !.force_libc = TRUE], fault),
                            fault, frames)
  ELSE should_fail_loaded([s EXCEPT !.force_libc = TRUE], fault, frames)

should_fail(s, fault, frames) ==
  IF s.has_failed THEN Ret(s, FALSE)
  ELSE IF s.dbf = NULL
    THEN should_fail_loaded(load_database([s EXCEPT !.force_libc = TRUE], fault),
                            fault, frames)
  ELSE should_fail_loaded([s EXCEPT !.force_libc = TRUE], fault, frames)

(***************************************************************************)
(* Ignore filters and resource tracking                                    *)
(***************************************************************************)
RECURSIVE SkipDelims(_)
SkipDelims(v) == IF v # << >> /\ Head(v) = 32 THEN SkipDelims(Tail(v)) ELSE v

RECURSIVE TokenLen(_)
TokenLen(v) == IF v = << >> \/ Head(v) = 32 THEN 0 ELSE 1 + TokenLen(Tail(v))

\* the tokens strtok(v, " ") yields, in order; w is v after its leading
\* delimiters
RECURSIVE TokensFrom(_)
TokensFrom(w) ==
  IF w = << >> THEN << >>
  ELSE << SubSeq(w, 1, TokenLen(w)) >>
         \o TokensFrom(SkipDelims(SubSeq(w, TokenLen(w) + 2, Len(w))))

Tokens(v) == TokensFrom(SkipDelims(v))

\* what getenv returns after strtok(v, " ") has run on the variable's own
\* buffer: strtok writes a NUL over the delimiter that ends the first token
AfterStrtok(v) ==
  SubSeq(v, 1, (Len(v) - Len(SkipDelims(v))) + TokenLen(SkipDelims(v)))

AnyTokenIn(backtrace, toks) ==
  \E i \in 1 .. Len(toks) : strstr(backtrace, toks[i])

\* [st, ret]
should_ignore_err(s, fault, backtrace, ignore_env, ignore_all_env) ==
  IF s.env[ignore_all_env] # NULL THEN Ret(s, TRUE)
  ELSE IF /\ ignore_env = "IGNORE_MEM_LEAKS"
          /\ (strstr(backtrace, t_doalloc) \/ strstr(backtrace, t_fopen))
    THEN Ret(s, TRUE)
  ELSE IF s.env[ignore_env] = NULL THEN Ret(s, FALSE)
  ELSE IF fault = "ignore_strdup" THEN Ret(exit_error(s), FALSE)
  ELSE Ret([s EXCEPT !.env[ignore_env] = << AfterStrtok(@[1]) >>],
           AnyTokenIn(backtrace, Tokens(s.env[ignore_env][1])))

track_create(s, fault, hash, table, frames) ==
  IF s.force_libc THEN s
  ELSE IF fault = "track_entry" THEN exit_error([s EXCEPT !.force_libc = TRUE])
  ELSE IF fault = "backtrace_strdup"
    THEN exit_error([s EXCEPT !.force_libc = TRUE])
  ELSE [s EXCEPT ![table] =
          hash_table_insert(Entry(hash, get_backtrace_string(frames)), @).table]

\* ign is what should_ignore_err returned for the current backtrace
track_destroy_report(ign, hash, msg) ==
  IF ign.st.exiting THEN ign.st
  ELSE IF ign.ret THEN [ign.st EXCEPT !.force_libc = FALSE]
  ELSE [ign.st EXCEPT !.stderr = Append(@, [msg |-> msg, hash |-> hash]),
                      !.found_bug = TRUE,
                      !.force_libc = FALSE]

\* pop is what hash_table_pop returned; s has force_libc raised
track_destroy_popped(s, fault, hash, table, pop, ignore_env, ignore_all_env, msg, frames) ==
  IF pop.ret # NULL
    THEN [s EXCEPT ![table] = pop.table, !.force_libc = FALSE]
  ELSE IF fault = "backtrace_strdup" THEN exit_error(s)
  ELSE track_destroy_report(
         should_ignore_err(s, fault, get_backtrace_string(frames), ignore_env,
                           ignore_all_env),
         hash, msg)

track_destroy(s, fault, hash, table, ignore_env, ignore_all_env, msg, frames) ==
  IF s.force_libc THEN s
  ELSE track_destroy_popped([s EXCEPT !.force_libc = TRUE], fault, hash, table,
                            hash_table_pop(hash, s[table]), ignore_env,
                            ignore_all_env, msg, frames)

(***************************************************************************)
(* The wrappers.  s is the engine state, L the resources the underlying    *)
(* libc holds open for the process, u what the underlying call returns     *)
(* when it is made.  Each yields [st, live, ret, inj]: ret is the value    *)
(* handed to the program and inj tells that it is a synthetic failure.     *)
(***************************************************************************)
handle_call(s, fault, frames) ==
  IF ~s.force_libc THEN should_fail(s, fault, frames) ELSE Ret(s, FALSE)

Res(st, live, ret, inj) == [st |-> st, live |-> live, ret |-> ret, inj |-> inj]

\* a wrapper that makes the underlying call before it looks at the decision
wrap_create_decided_called(d, L, fault, frames, u, sentinel, table, kind) ==
  IF d.st.exiting THEN Res(d.st, L, sentinel, FALSE)
  ELSE IF d.ret /\ u = sentinel THEN Res(d.st, L, sentinel, TRUE)
  ELSE IF d.ret THEN Res(d.st, [L EXCEPT ![kind] = @ \cup {u}], sentinel, TRUE)
  ELSE IF u = sentinel THEN Res(d.st, L, u, FALSE)
  ELSE Res(track_create(d.st, fault, U64(u), table, frames),
           [L EXCEPT ![kind] = @ \cup {u}], u, FALSE)

\* d is the decision of handle_call; the underlying call is made when the
\* decision is not to fail
wrap_create_decided(d, L, fault, frames, u, sentinel, table, kind) ==
  IF d.st.exiting THEN Res(d.st, L, sentinel, FALSE)
  ELSE IF d.ret THEN Res(d.st, L, sentinel, TRUE)
  ELSE IF u = sentinel THEN Res(d.st, L, u, FALSE)
  ELSE Res(track_create(d.st, fault, U64(u), table, frames),
           [L EXCEPT ![kind] = @ \cup {u}], u, FALSE)

\* the shape of malloc, calloc, creat, open, openat, fopen, fmemopen, tmpfile
wrap_create(s, L, fault, frames, u, sentinel, table, kind) ==
  wrap_create_decided(handle_call(s, fault, frames), L, fault, frames, u,
                      sentinel, table, kind)

wrap_plain_decided(d, L, u, sentinel) ==
  IF d.st.exiting THEN Res(d.st, L, sentinel, FALSE)
  ELSE IF d.ret THEN Res(d.st, L, sentinel, TRUE)
  ELSE Res(d.st, L, u, FALSE)

\* the shape of read, write, fwrite, fflush
wrap_plain(s, L, fault, frames, u, sentinel) ==
  wrap_plain_decided(handle_call(s, fault, frames), L, u, sentinel)

\* a close-like wrapper that takes the decision whatever the call returned
handle_call_close_always(s, L, fault, frames, u, sentinel) ==
  IF ~s.force_libc
    THEN wrap_plain_decided(should_fail(s, fault, frames), L, u, sentinel)
    ELSE Res(s, L, u, FALSE)

\* handle_call_close: the underlying call has been made and returned u
handle_call_close(s, L, fault, frames, u, sentinel) ==
  IF u = 0 /\ ~s.force_libc
    THEN wrap_plain_decided(should_fail(s, fault, frames), L, u, sentinel)
    ELSE Res(s, L, u, FALSE)

malloc(s, L, fault, frames, u) ==
  wrap_create(s, L, fault, frames, u, 0, "allocation_table", "mem")

calloc(s, L, fault, frames, u) ==
  wrap_create(s, L, fault, frames, u, 0, "allocation_table", "mem")

\* s is the state track_destroy left
realloc_destroyed(s, L, fault, frames, u) ==
  IF s.exiting THEN Res(s, L, u, FALSE)
  ELSE Res(track_create(s, fault, U64(u), "allocation_table", frames), L, u,
           FALSE)

\* realloc that tracks the new block and keeps the entry of the old one
realloc_decided_kept(d, L, fault, frames, ptr, u) ==
  IF d.st.exiting THEN Res(d.st, L, 0, FALSE)
  ELSE IF d.ret THEN Res(d.st, L, 0, TRUE)
  ELSE IF u = 0 THEN Res(d.st, L, u, FALSE)
  ELSE realloc_destroyed(d.st, [L EXCEPT !.mem = (@ \ {ptr}) \cup {u}], fault,
                         frames, u)

\* u = 0: the underlying realloc fails and ptr stays allocated
realloc_decided(d, L, fault, frames, ptr, u) ==
  IF d.st.exiting THEN Res(d.st, L, 0, FALSE)
  ELSE IF d.ret THEN Res(d.st, L, 0, TRUE)
  ELSE IF u = 0 THEN Res(d.st, L, u, FALSE)
  ELSE realloc_destroyed(
         track_destroy(d.st, fault, U64(ptr), "allocation_table",
                       "IGNORE_UNTRACKED_FREES", "IGNORE_ALL_UNTRACKED_FREES",
                       "Attempted to realloc untracked pointer", frames),
         [L EXCEPT !.mem = (@ \ {ptr}) \cup {u}], fault, frames, u)

realloc(s, L, fault, frames, ptr, u) ==
  realloc_decided(handle_call(s, fault, frames), L, fault, frames, ptr, u)

free(s, L, fault, frames, ptr) ==
  IF ptr # 0
    THEN Res(track_destroy(s, fault, U64(ptr), "allocation_table",
                           "IGNORE_UNTRACKED_FREES",
                           "IGNORE_ALL_UNTRACKED_FREES",
                           "Attempted to free untracked pointer", frames),
             [L EXCEPT !.mem = @ \ {ptr}], 0, FALSE)
    ELSE Res(s, L, 0, FALSE)

creat(s, L, fault, frames, u) ==
  wrap_create(s, L, fault, frames, u, -1, "fd_table", "fd")

open(s, L, fault, frames, u) ==
  wrap_create(s, L, fault, frames, u, -1, "fd_table", "fd")

openat(s, L, fault, frames, u) ==
  wrap_create(s, L, fault, frames, u, -1, "fd_table", "fd")

\* s is the state track_destroy left, L what is open after the underlying call
close_destroyed(s, L, fault, frames, u, sentinel) ==
  IF s.exiting THEN Res(s, L, sentinel, FALSE)
  ELSE handle_call_close(s, L, fault, frames, u, sentinel)

close(s, L, fault, frames, fd, u) ==
  close_destroyed(
    track_destroy(s, fault, U64(fd), "fd_table", "IGNORE_UNTRACKED_CLOSES",
                  "IGNORE_ALL_UNTRACKED_CLOSES",
                  "Attempted to close untracked file descriptor", frames),
    [L EXCEPT !.fd = @ \ {fd}], fault, frames, u, -1)

read(s, L, fault, frames, u) == wrap_plain(s, L, fault, frames, u, -1)

write(s, L, fault, frames, u) == wrap_plain(s, L, fault, frames, u, -1)

fopen(s, L, fault, frames, u) ==
  wrap_create(s, L, fault, frames, u, 0, "file_table", "file")

\* fdopen that tracks the stream and keeps the entry of the descriptor
fdopen_created_kept(s, L, fault, frames, fd, u) == Res(s, L, u, FALSE)

\* s is the state track_create left
fdopen_created(s, L, fault, frames, fd, u) ==
  IF s.exiting THEN Res(s, L, u, FALSE)
  ELSE Res(track_destroy(s, fault, U64(fd), "fd_table",
                         "IGNORE_UNTRACKED_FCLOSES",
                         "IGNORE_ALL_UNTRACKED_FCLOSES",
                         "Attempted to fdopen untracked file descriptor",
                         frames),
           L, u, FALSE)

\* the descriptor passes to the stream, which closes it in fclose
fdopen_decided(d, L, fault, frames, fd, u) ==
  IF d.st.exiting THEN Res(d.st, L, 0, FALSE)
  ELSE IF d.ret THEN Res(d.st, L, 0, TRUE)
  ELSE IF u = 0 THEN Res(d.st, L, u, FALSE)
  ELSE fdopen_created(track_create(d.st, fault, U64(u), "file_table", frames),
                      [L EXCEPT !.file = @ \cup {u}, !.fd = @ \ {fd}],
                      fault, frames, fd, u)

fdopen(s, L, fault, frames, fd, u) ==
  fdopen_decided(handle_call(s, fault, frames), L, fault, frames, fd, u)

fmemopen(s, L, fault, frames, u) ==
  wrap_create(s, L, fault, frames, u, 0, "file_table", "file")

tmpfile(s, L, fault, frames, u) ==
  wrap_create(s, L, fault, frames, u, 0, "file_table", "file")

\* the stream is released whatever the underlying fclose returns
fclose(s, L, fault, frames, stream, u) ==
  close_destroyed(
    track_destroy(s, fault, U64(stream), "file_table",
                  "IGNORE_UNTRACKED_FCLOSES", "IGNORE_ALL_UNTRACKED_FCLOSES",
                  "Attempted to fclose untracked file", frames),
    [L EXCEPT !.file = @ \ {stream}], fault, frames, u, -1)

fwrite(s, L, fault, frames, u) == wrap_plain(s, L, fault, frames, u, 0)

fflush(s, L, fault, frames, u) == wrap_plain(s, L, fault, frames, u, -1)

(***************************************************************************)
(* Reads of a freed hash_entry.  hdl_leaks and fcloseall do                *)
(*     free(h); h = h->next;                                               *)
(* so the next pointer is read from freed memory.  uaf is what that read   *)
(* gives: "intact" (the allocator left the field alone), "null" (the       *)
(* allocator cleared the block) or "wild" (it holds something else and the *)
(* process dies on the next dereference).                                  *)
(***************************************************************************)
UafOutcomes == { "intact", "null", "wild" }

\* the bucket indexes of S in the order for (i = 0; i < HASH_TABLE_SIZE; i++)
\* visits them
SortedSeq[S \in SUBSET (0 .. HASH_TABLE_SIZE - 1)] ==
  IF S = {} THEN << >>
  ELSE LET m == CHOOSE x \in S : \A y \in S : x <= y
       IN  << m >> \o SortedSeq[S \ { m }]

\* the for loop of fcloseall over file_table; force_libc is raised around it
fcloseall_drop(s, uaf) ==
  IF uaf = "wild" /\ \E b \in DOMAIN s.file_table : s.file_table[b] # << >>
    THEN [s EXCEPT !.killed = TRUE, !.force_libc = TRUE]
    ELSE [s EXCEPT !.file_table = [b \in DOMAIN @ |-> << >>],
                   !.force_libc = FALSE]

\* s is the state the loop left
fcloseall_dropped(s, L, fault, frames, u) ==
  IF s.killed THEN Res(s, L, -1, FALSE)
  ELSE handle_call_close(s, [L EXCEPT !.file = {}], fault, frames, u, -1)

fcloseall(s, L, fault, frames, uaf, u) ==
  fcloseall_dropped(fcloseall_drop(s, uaf), L, fault, frames, u)

(***************************************************************************)
(* The destructor.  The statements of a loop body run one after the other: *)
(* CHOOSE r \in { F(t) : t \in { e } } : TRUE  is F applied to the state     *)
(* that e leaves, with e evaluated once.                                   *)
(***************************************************************************)
print_leak(s, h, msg) ==
  [s EXCEPT !.found_bug = TRUE,
            !.stderr = Append(@, [msg |-> msg, hash |-> h.hash])]

\* if (!should_ignore_err(...)) print_leak(h, msg);  ign is what
\* should_ignore_err returned
hdl_leaks_entry(ign, h, msg) ==
  IF ign.st.exiting \/ ign.ret THEN ign.st ELSE print_leak(ign.st, h, msg)

\* s.exiting tells that exit_error() ended the scan
RECURSIVE hdl_leaks(_, _, _, _, _, _, _)

\* free(h); h = h->next;  s is the state after the entry at the head of chain
hdl_leaks_next(s, fault, uaf, chain, ignore_env, ignore_all_env, msg) ==
  IF s.exiting THEN s
  ELSE IF uaf = "intact"
    THEN hdl_leaks(s, fault, uaf, Tail(chain), ignore_env, ignore_all_env, msg)
  ELSE IF uaf = "null" THEN s
  ELSE [s EXCEPT !.killed = TRUE]

\* t is the state after the entry at the head of chain
hdl_leaks(s, fault, uaf, chain, ignore_env, ignore_all_env, msg) ==
  IF chain = << >> THEN s
  ELSE CHOOSE r \in
         { hdl_leaks_next(t, fault, uaf, chain, ignore_env, ignore_all_env, msg) :
             t \in { hdl_leaks_entry(
                       should_ignore_err(s, fault, Head(chain).backtrace,
                                         ignore_env, ignore_all_env),
                       Head(chain), msg) } } : TRUE

Stopped(s) == s.exiting \/ s.killed

\* bucket i of check_leaks: c is the state after hdl_leaks(file_table[i])
check_bucket_file(c, i) ==
  IF Stopped(c) THEN c ELSE [c EXCEPT !.file_table[i] = << >>]

\* b is the state after hdl_leaks(fd_table[i])
check_bucket_fd(b, fault, uaf, i) ==
  IF Stopped(b) THEN b
  ELSE CHOOSE r \in
         { check_bucket_file(c, i) :
             c \in { hdl_leaks([b EXCEPT !.fd_table[i] = << >>], fault, uaf,
                               b.file_table[i], "IGNORE_FILE_LEAKS",
                               "IGNORE_ALL_FILE_LEAKS",
                               "Possible unclosed file") } } : TRUE

\* a is the state after hdl_leaks(allocation_table[i])
check_bucket_alloc(a, fault, uaf, i) ==
  IF Stopped(a) THEN a
  ELSE CHOOSE r \in
         { check_bucket_fd(b, fault, uaf, i) :
             b \in { hdl_leaks([a EXCEPT !.allocation_table[i] = << >>], fault,
                               uaf, a.fd_table[i], "IGNORE_FD_LEAKS",
                               "IGNORE_ALL_FD_LEAKS",
                               "Possible file descriptor leak") } } : TRUE

\* one iteration of the for loop of check_leaks, bucket i
check_bucket(s, fault, uaf, i) ==
  CHOOSE r \in
    { check_bucket_alloc(a, fault, uaf, i) :
        a \in { hdl_leaks(s, fault, uaf, s.allocation_table[i],
                          "IGNORE_MEM_LEAKS", "IGNORE_ALL_MEM_LEAKS",
                          "Possible memory leak") } } : TRUE

RECURSIVE check_buckets(_, _, _, _)
check_buckets(s, fault, uaf, is) ==
  IF is = << >> \/ Stopped(s) THEN s
  ELSE CHOOSE r \in
         { check_buckets(t, fault, uaf, Tail(is)) :
             t \in { check_bucket(s, fault, uaf, Head(is)) } } : TRUE

\* if (found_bug) __exit_error("FAILINJ_BUG_FOUND", 33);
check_leaks_end(s) ==
  IF Stopped(s) THEN s
  ELSE IF s.found_bug THEN __exit_error(s, "BUG_FOUND", 33)
  ELSE [s EXCEPT !.exiting = TRUE]

\* s.code is the status of the exit() that started the shutdown; the result
\* has exiting set and code the status the process ends with, or killed set
check_leaks(s, fault, uaf) ==
  CHOOSE r \in
    { check_leaks_end(e) :
        e \in { check_buckets([s EXCEPT !.force_libc = TRUE,
                                        !.exiting = FALSE],
                              fault, uaf,
                              SortedSeq[DOMAIN s.allocation_table]) } } : TRUE

(***************************************************************************)
(* Bounds and inputs                                                       *)
(***************************************************************************)
MaxRuns  == 3        \* processes run one after the other on the database
MaxCalls == 3        \* wrapped calls the program makes in one run

\* what the underlying allocator, open and fopen can return; the two values
\* of each pool fall into the same bucket
PtrPool  == { 4096, 5120 }
FdPool   == { 3, 1027 }
FilePool == { 8192, 9216 }
\* resources the process holds that no wrapper created: a block from an
\* allocator that is not wrapped, the standard output descriptor and stream
ForeignPtrs  == { 4112 }
ForeignFds   == { 1 }
ForeignFiles == { 12304 }
\* close(88) of src/test2.c: a descriptor that was never opened
BadFds == { 88 }

InitLive == [mem |-> ForeignPtrs, fd |-> ForeignFds, file |-> ForeignFiles]

ExitCodes == { 0, 1 }

Faults == { "none", "db_fopen", "load_entry", "db_fread", "callsite_entry",
            "db_fwrite", "db_fflush_lost", "db_fflush_late", "track_entry",
            "backtrace_strdup", "ignore_strdup" }

EnvNames == { "SKIP_INJECTION", "EXIT_ERROR", "BUG_FOUND",
              "IGNORE_MEM_LEAKS", "IGNORE_ALL_MEM_LEAKS",
              "IGNORE_FD_LEAKS", "IGNORE_ALL_FD_LEAKS",
              "IGNORE_FILE_LEAKS", "IGNORE_ALL_FILE_LEAKS",
              "IGNORE_UNTRACKED_FREES", "IGNORE_ALL_UNTRACKED_FREES",
              "IGNORE_UNTRACKED_CLOSES", "IGNORE_ALL_UNTRACKED_CLOSES",
              "IGNORE_UNTRACKED_FCLOSES", "IGNORE_ALL_UNTRACKED_FCLOSES" }

EnvUnset == [v \in EnvNames |-> NULL]

t_1  == << 49 >>                                     \* "1"
t_7  == << 55 >>                                     \* "7"
t_9x == << 57, 120 >>                                \* "9x"

EnvChoices ==
  { EnvUnset,
    [EnvUnset EXCEPT !["SKIP_INJECTION"] = << t_ru >>],
    [EnvUnset EXCEPT !["SKIP_INJECTION"] = << t_io_run >>],
    [EnvUnset EXCEPT !["IGNORE_MEM_LEAKS"] = << t_io_run >>,
                     !["IGNORE_FD_LEAKS"] = << t_io_run >>,
                     !["IGNORE_UNTRACKED_CLOSES"] = << t_io_run >>,
                     !["BUG_FOUND"] = << t_7 >>],
    [EnvUnset EXCEPT !["IGNORE_ALL_MEM_LEAKS"] = << t_1 >>,
                     !["IGNORE_ALL_UNTRACKED_FREES"] = << t_1 >>,
                     !["IGNORE_FILE_LEAKS"] = << t_run >>,
                     !["EXIT_ERROR"] = << t_7 >>,
                     !["BUG_FOUND"] = << t_9x >>] }

UsedBuckets ==
  { Slot(U64(k)) : k \in PtrPool \cup FdPool \cup FilePool \cup ForeignPtrs
                         \cup ForeignFds \cup ForeignFiles \cup BadFds \cup {0} }
    \cup { Slot(Fingerprint(f)) : f \in Stacks }

EmptyTable == [b \in UsedBuckets |-> << >>]

\* the programs under test: the wrapped primitives each one calls, in order,
\* and the call site of each
Call(fn, frames) == [fn |-> fn, frames |-> frames]

Programs ==
  { << Call("malloc", SiteA),  Call("calloc", SiteA),   Call("free", SiteC) >>,
    << Call("malloc", SiteC),  Call("realloc", SiteA),  Call("free", SiteA) >>,
    << Call("creat", SiteC),   Call("close", SiteA),    Call("close", SiteA) >>,
    << Call("open", SiteA),    Call("fdopen", SiteC),   Call("fclose", SiteA) >>,
    << Call("fopen", SiteA),   Call("fmemopen", SiteC), Call("fcloseall", SiteC) >>,
    << Call("openat", SiteC),  Call("read", SiteA),     Call("write", SiteC) >>,
    << Call("tmpfile", SiteA), Call("fwrite", SiteC),   Call("fflush", SiteA) >>,
    << Call("creat", SiteA),   Call("freopen", SiteC),  Call("fclose", SiteA) >> }

NoCall ==
  [fn |-> "none", frames |-> << >>, arg |-> 0, ret |-> 0, inj |-> FALSE,
   errno |-> "unset", under |-> 0]

(***************************************************************************)
(* State                                                                   *)
(***************************************************************************)
VARIABLES
  callsite_table, allocation_table, fd_table, file_table,  \* the four tables
  force_libc, found_bug, has_failed, dbf,                  \* the engine's statics
  db,           \* the records of the database file, in file order
  env,          \* the process environment
  stderr,       \* the reports written to standard error
  live,         \* the resources the underlying libc holds for the process
  prog,         \* the program under test: the wrapped calls it makes, in order
  pc,           \* "run", "exit" (exit() called, destructor not yet run),
                \* "done" (check_leaks ran to its end), "aborted" (exit_error
                \* ended the process inside check_leaks), "killed" (by a signal)
  exit_status,  \* the argument of the last exit(), as the parent sees it
  run,          \* number of the running process
  ncalls,       \* wrapped calls made by the program in this run
  db_entry,     \* the database at process start
  env_entry,    \* the environment at process start
  injected,     \* fingerprints of the calls failed synthetically in this run
  failed_before,\* fingerprints failed synthetically in earlier runs
  last,         \* the last wrapped call of the program and its result
  thread,       \* each thread's position in the wrapper it runs, and its locals
  hash_table_mutex,     \* the thread that holds the mutex, 0 when it is free
  use_early_allocator,  \* the flag call_super raises around dlsym
  super,        \* the primitives whose __super pointer is resolved
  served,       \* how each allocation request was served, and when
  nested,       \* the wrapped calls the engine made itself, and how they went
  pos           \* the static pos of early_allocator: the bytes of early_mem
                \* handed out

vars == << callsite_table, allocation_table, fd_table, file_table,
           force_libc, found_bug, has_failed, dbf, db, env, stderr, live,
           prog, pc, exit_status, run, ncalls, db_entry, env_entry, injected,
           failed_before, last, thread, hash_table_mutex,
           use_early_allocator, super, served, nested, pos >>

tvars == << thread, hash_table_mutex, use_early_allocator, super, served,
            nested, pos >>

Threads == { 1, 2 }

\* a thread that has not made a call yet: at is the line it is about to
\* execute, op the number of calls it has started, ptr the block it holds,
\* ret the local of should_fail, asked whether dlsym has made its allocation
IdleThread ==
  [at |-> "idle", op |-> 0, fn |-> "none", ptr |-> 0, ret |-> FALSE,
   asked |-> FALSE]

\* the program has one thread and the library's statics are as loaded
OneThread ==
  /\ thread = [t \in Threads |-> IdleThread]
  /\ hash_table_mutex = 0
  /\ use_early_allocator = FALSE
  /\ super = {}
  /\ served = {}
  /\ nested = {}
  /\ pos = 0

Cur ==
  [callsite_table |-> callsite_table, allocation_table |-> allocation_table,
   fd_table |-> fd_table, file_table |-> file_table,
   force_libc |-> force_libc, found_bug |-> found_bug,
   has_failed |-> has_failed, dbf |-> dbf, db |-> db, env |-> env,
   stderr |-> stderr, exiting |-> FALSE, killed |-> FALSE,
   code |-> exit_status]

Commit(s) ==
  /\ callsite_table' = s.callsite_table
  /\ allocation_table' = s.allocation_table
  /\ fd_table' = s.fd_table
  /\ file_table' = s.file_table
  /\ force_libc' = s.force_libc
  /\ found_bug' = s.found_bug
  /\ has_failed' = s.has_failed
  /\ dbf' = s.dbf
  /\ db' = s.db
  /\ env' = s.env
  /\ stderr' = s.stderr
  /\ exit_status' = s.code

\* the engine's statics when the process starts with environment e
Boot(e, records) ==
  [callsite_table |-> EmptyTable, allocation_table |-> EmptyTable,
   fd_table |-> EmptyTable, file_table |-> EmptyTable,
   force_libc |-> FALSE, found_bug |-> FALSE, has_failed |-> FALSE,
   dbf |-> NULL, db |-> records, env |-> e, stderr |-> << >>,
   exiting |-> FALSE, killed |-> FALSE, code |-> 0]

Init ==
  \E e \in EnvChoices, p \in Programs :
     /\ prog = p
     /\ callsite_table = EmptyTable
     /\ allocation_table = EmptyTable
     /\ fd_table = EmptyTable
     /\ file_table = EmptyTable
     /\ force_libc = FALSE
     /\ found_bug = FALSE
     /\ has_failed = FALSE
     /\ dbf = NULL
     /\ db = << >>
     /\ env = e
     /\ stderr = << >>
     /\ exit_status = 0
     /\ live = InitLive
     /\ pc = "run"
     /\ run = 1
     /\ ncalls = 0
     /\ db_entry = << >>
     /\ env_entry = e
     /\ injected = << >>
     /\ failed_before = {}
     /\ last = NoCall
     /\ OneThread

(***************************************************************************)
(* Actions: one per wrapped primitive the program calls, the program's     *)
(* exit, the destructor, and the start of the next process.                *)
(***************************************************************************)
\* the frames of the call the program makes next, when that is a call of fn;
\* the program repeats its calls until it exits
Calls(fn) ==
  LET c == prog[(ncalls % Len(prog)) + 1]
  IN  IF c.fn = fn THEN { c.frames } ELSE {}

\* the err_errno argument of each wrapper's handle_call or handle_call_close;
\* errno is assigned it just before the wrapper returns err_ret
err_errno(fn) ==
  CASE fn \in { "malloc", "calloc", "realloc", "fmemopen" } -> "ENOMEM"
    [] fn \in { "creat", "open", "openat", "fopen" } -> "EACCES"
    [] fn = "close" -> "EDQUOT"
    [] fn = "read" -> "EIO"
    [] fn \in { "write", "fclose", "fcloseall", "fwrite", "fflush" } -> "ENOSPC"
    [] fn \in { "fdopen", "freopen" } -> "EPERM"
    [] fn = "tmpfile" -> "EROFS"
    [] OTHER -> "unset"

\* what the underlying allocator hands out next: the lowest free element of
\* the pool, nothing when the pool is used up
LibcNew(pool, used) ==
  IF pool \ used = {} THEN {}
  ELSE { CHOOSE x \in pool \ used : \A y \in pool \ used : x <= y }

Range(q) == { q[i] : i \in 1 .. Len(q) }

\* the program makes a wrapped call; r is the wrapper's result.  A fault
\* other than "none" is one that the handler runs into.  under is the result
\* of the underlying close, fclose or fcloseall, the primitives that are called
\* before the decision; it is 0 for every other call.
StepUnder(fn, frames, arg, under, fault, r) ==
  /\ pc = "run"
  /\ ncalls < MaxCalls
  /\ fault = "none" \/ r.st.exiting
  /\ Commit(r.st)
  /\ live' = r.live
  /\ pc' = IF r.st.killed THEN "killed"
           ELSE IF r.st.exiting THEN "exit" ELSE "run"
  /\ ncalls' = ncalls + 1
  /\ injected' = IF r.inj THEN Append(injected, Fingerprint(frames))
                 ELSE injected
  /\ last' = [fn |-> fn, frames |-> frames, arg |-> arg, ret |-> r.ret,
              inj |-> r.inj,
              errno |-> IF r.inj THEN err_errno(fn) ELSE "libc",
              under |-> under]
  /\ UNCHANGED << prog, run, db_entry, env_entry, failed_before >>
  /\ UNCHANGED tvars

Step(fn, frames, arg, fault, r) == StepUnder(fn, frames, arg, 0, fault, r)

CallMalloc ==
  \E frames \in Calls("malloc"), fault \in Faults, u \in LibcNew(PtrPool, live.mem) \cup {0} :
     Step("malloc", frames, 0, fault, malloc(Cur, live, fault, frames, u))

CallCalloc ==
  \E frames \in Calls("calloc"), fault \in Faults, u \in LibcNew(PtrPool, live.mem) \cup {0} :
     Step("calloc", frames, 0, fault, calloc(Cur, live, fault, frames, u))

CallRealloc ==
  \E frames \in Calls("realloc"), fault \in Faults, ptr \in live.mem \cup {0} :
    \E u \in LibcNew(PtrPool, live.mem) \cup {ptr, 0} :
     Step("realloc", frames, ptr, fault,
          realloc(Cur, live, fault, frames, ptr, u))

CallFree ==
  \E frames \in Calls("free"), fault \in Faults, ptr \in live.mem \cup {0} :
     Step("free", frames, ptr, fault, free(Cur, live, fault, frames, ptr))

CallCreat ==
  \E frames \in Calls("creat"), fault \in Faults, u \in LibcNew(FdPool, live.fd) \cup {-1} :
     Step("creat", frames, 0, fault, creat(Cur, live, fault, frames, u))

CallOpen ==
  \E frames \in Calls("open"), fault \in Faults, u \in LibcNew(FdPool, live.fd) \cup {-1} :
     Step("open", frames, 0, fault, open(Cur, live, fault, frames, u))

CallOpenat ==
  \E frames \in Calls("openat"), fault \in Faults, u \in LibcNew(FdPool, live.fd) \cup {-1} :
     Step("openat", frames, 0, fault, openat(Cur, live, fault, frames, u))

\* close of a descriptor that is not open fails with EBADF
CallClose ==
  \E frames \in Calls("close"), fault \in Faults, fd \in live.fd \cup BadFds :
     StepUnder("close", frames, fd, IF fd \in live.fd THEN 0 ELSE -1, fault,
          close(Cur, live, fault, frames, fd, IF fd \in live.fd THEN 0 ELSE -1))

CallRead ==
  \E frames \in Calls("read"), fault \in Faults, u \in {-1, 0} :
     Step("read", frames, 0, fault, read(Cur, live, fault, frames, u))

CallWrite ==
  \E frames \in Calls("write"), fault \in Faults, u \in {-1, 0} :
     Step("write", frames, 0, fault, write(Cur, live, fault, frames, u))

CallFopen ==
  \E frames \in Calls("fopen"), fault \in Faults, u \in LibcNew(FilePool, live.file) \cup {0} :
     Step("fopen", frames, 0, fault, fopen(Cur, live, fault, frames, u))

CallFdopen ==
  \E frames \in Calls("fdopen"), fault \in Faults, fd \in live.fd \cup BadFds :
    \E u \in (IF fd \in live.fd THEN LibcNew(FilePool, live.file) ELSE {}) \cup {0} :
     Step("fdopen", frames, fd, fault,
          fdopen(Cur, live, fault, frames, fd, u))

CallFmemopen ==
  \E frames \in Calls("fmemopen"), fault \in Faults, u \in LibcNew(FilePool, live.file) \cup {0} :
     Step("fmemopen", frames, 0, fault, fmemopen(Cur, live, fault, frames, u))

CallTmpfile ==
  \E frames \in Calls("tmpfile"), fault \in Faults, u \in LibcNew(FilePool, live.file) \cup {0} :
     Step("tmpfile", frames, 0, fault, tmpfile(Cur, live, fault, frames, u))

CallFclose ==
  \E frames \in Calls("fclose"), fault \in Faults, stream \in live.file, u \in {0, -1} :
     StepUnder("fclose", frames, stream, u, fault,
          fclose(Cur, live, fault, frames, stream, u))

CallFcloseall ==
  \E frames \in Calls("fcloseall"), fault \in Faults, uaf \in UafOutcomes, u \in {0, -1} :
     /\ uaf = "intact" \/ file_table # EmptyTable
     /\ StepUnder("fcloseall", frames, 0, u, fault,
             fcloseall(Cur, live, fault, frames, uaf, u))

\* freopen(pathname, mode, stream) of src/failcov.c:
\*     f = handle_call(fdopen, FILE *, NULL, EPERM, pathname, mode, stream);
\* the symbol call_super resolves and calls is fdopen, through a pointer
\* without prototype: the underlying fdopen takes the low 32 bits of pathname
\* as its descriptor (fd below) and mode as its mode, and never sees stream.
\* It returns a new stream u when that number is an open descriptor and NULL
\* otherwise.  Then, if (f): track_create(f, file_table) and
\* track_destroy(stream, file_table, msg), which in that file reports every
\* key it does not find.
CallFreopen ==
  \E frames \in Calls("freopen"), fault \in Faults, stream \in live.file,
     fd \in FdPool \cup { 4202500 } :
    \E u \in (IF fd \in live.fd THEN LibcNew(FilePool, live.file) ELSE {}) \cup {0},
       d \in { handle_call(Cur, fault, frames) } :
      \E s1 \in { IF d.st.exiting \/ d.ret \/ u = 0 THEN d.st
                  ELSE track_create(d.st, fault, U64(u), "file_table", frames) } :
        \E pop \in { hash_table_pop(U64(stream), s1.file_table) } :
          Step("freopen", frames, stream, fault,
               IF d.st.exiting \/ d.ret \/ u = 0 THEN Res(d.st, live, 0, d.ret)
               ELSE IF s1.exiting
                 THEN Res(s1, [live EXCEPT !.file = @ \cup {u}, !.fd = @ \ {fd}],
                          u, FALSE)
               ELSE IF pop.ret # NULL
                 THEN Res([s1 EXCEPT !.file_table = pop.table],
                          [live EXCEPT !.file = @ \cup {u}, !.fd = @ \ {fd}],
                          u, FALSE)
               ELSE Res([s1 EXCEPT
                           !.stderr = Append(@, [msg |-> "Attempted to freopen untracked file",
                                                 hash |-> U64(stream)]),
                           !.found_bug = TRUE],
                        [live EXCEPT !.file = @ \cup {u}, !.fd = @ \ {fd}],
                        u, FALSE))

CallFwrite ==
  \E frames \in Calls("fwrite"), fault \in Faults, u \in {0, 1} :
     Step("fwrite", frames, 0, fault, fwrite(Cur, live, fault, frames, u))

CallFflush ==
  \E frames \in Calls("fflush"), fault \in Faults, u \in {-1, 0} :
     Step("fflush", frames, 0, fault, fflush(Cur, live, fault, frames, u))

\* the program calls exit(status) or returns status from main
ProgramExit ==
  \E status \in ExitCodes :
     /\ pc = "run"
     /\ pc' = "exit"
     /\ exit_status' = ExitStatus(status)
     /\ UNCHANGED << callsite_table, allocation_table, fd_table, file_table,
                     force_libc, found_bug, has_failed, dbf, db, env, stderr,
                     live, prog, run, ncalls, db_entry, env_entry,
                     injected, failed_before, last >>
     /\ UNCHANGED tvars

\* r is the state check_leaks leaves; a fault is one that exit_error()
\* reported during the scan
Shutdown(fault, r) ==
  /\ \/ fault = "none"
     \/ /\ Len(r.stderr) > Len(stderr)
        /\ r.stderr[Len(r.stderr)].msg = "internal error"
  /\ Commit(r)
  /\ pc' = IF r.killed THEN "killed"
           ELSE IF fault # "none" THEN "aborted" ELSE "done"
  /\ UNCHANGED << live, prog, run, ncalls, db_entry, env_entry, injected,
                  failed_before, last >>
  /\ UNCHANGED tvars

\* exit() runs the destructor check_leaks
Destructor ==
  \E fault \in { "none", "ignore_strdup" }, uaf \in UafOutcomes :
     /\ pc = "exit"
     /\ \/ uaf = "intact"
        \/ allocation_table # EmptyTable
        \/ fd_table # EmptyTable
        \/ file_table # EmptyTable
     /\ \E r \in { check_leaks(Cur, fault, uaf) } : Shutdown(fault, r)

\* the program is run again on the same database
NewRun ==
  /\ pc \in { "done", "aborted", "killed" }
  /\ run < MaxRuns
  /\ Commit(Boot(env_entry, db))
  /\ live' = InitLive
  /\ pc' = "run"
  /\ run' = run + 1
  /\ ncalls' = 0
  /\ db_entry' = db
  /\ injected' = << >>
  /\ failed_before' = failed_before \cup Range(injected)
  /\ last' = NoCall
  /\ UNCHANGED << prog, env_entry >>
  /\ UNCHANGED tvars

Next ==
  \/ CallMalloc \/ CallCalloc \/ CallRealloc \/ CallFree
  \/ CallCreat \/ CallOpen \/ CallOpenat \/ CallClose
  \/ CallRead \/ CallWrite
  \/ CallFopen \/ CallFdopen \/ CallFmemopen \/ CallTmpfile
  \/ CallFclose \/ CallFcloseall \/ CallFwrite \/ CallFflush \/ CallFreopen
  \/ ProgramExit \/ Destructor \/ NewRun

Spec == Init /\ [][Next]_vars

\* the program under test ends, exit() runs the destructor, and the program
\* is run again
FairSpec ==
  Spec /\ WF_vars(ProgramExit) /\ WF_vars(Destructor) /\ WF_vars(NewRun)

(***************************************************************************)
(* Threads.  The program under test has two threads; each calls malloc and *)
(* then frees what it got.  A step of a thread is one access to the        *)
(* library's shared statics (force_libc, has_failed, dbf, the tables, the  *)
(* mutex, use_early_allocator, __super) together with the thread-local     *)
(* code up to the next such access.  thread[t].at is the code thread t     *)
(* executes next.                                                          *)
(***************************************************************************)
ThreadScript(t) ==
  IF t = 1 THEN << Call("malloc", SiteA), Call("free", SiteA) >>
           ELSE << Call("malloc", SiteC), Call("free", SiteC) >>

\* the frames of the call thread t is in
ThreadFrames(t) == ThreadScript(t)[thread[t].op].frames

\* sizeof(early_mem)
early_mem_size == 4096

\* early_allocator(size), with p the value of the static int pos:
\*     if ((pos + size) > sizeof(early_mem)) return NULL;
\*     pos += size;
\*     return &early_mem[pos - size];
\* pos is converted to size_t for the sum, the sum is converted back to int
\* by the assignment, and the index pos - size is a size_t again.  ret is the
\* offset of the returned pointer from early_mem, modulo 2^64.
early_allocator(p, size) ==
  IF Lt64(U64(early_mem_size), Add64(U64(p), size))
    THEN [pos |-> p, ret |-> NULL]
    ELSE [pos |-> Int32(Add64(U64(p), size)),
          ret |-> << Sub64(U64(Int32(Add64(U64(p), size))), size) >>]

\* &early_mem[0], what early_allocator returns first
ArenaPtr == 2064

\* the statics and the histories, as one record
TCur ==
  Cur @@ [live |-> live, injected |-> injected,
          hash_table_mutex |-> hash_table_mutex,
          use_early_allocator |-> use_early_allocator, super |-> super,
          served |-> served, nested |-> nested]

\* thread t has taken a step that leaves the statics g and its locals rec
TCommit(g, t, rec) ==
  /\ pc = "run"
  /\ Commit(g)
  /\ live' = g.live
  /\ injected' = g.injected
  /\ hash_table_mutex' = g.hash_table_mutex
  /\ use_early_allocator' = g.use_early_allocator
  /\ super' = g.super
  /\ served' = g.served
  /\ nested' = g.nested
  /\ thread' = [thread EXCEPT ![t] = rec]
  /\ pc' = IF g.killed THEN "killed" ELSE "run"
  /\ UNCHANGED << prog, run, ncalls, db_entry, env_entry, failed_before, last,
                  pos >>

TGoto(t, l) == [thread[t] EXCEPT !.at = l]

\* the primitives some thread is resolving: use_early_allocator has been
\* raised by that thread and not yet lowered by it
Resolving ==
  { thread[t].fn : t \in { x \in Threads : thread[x].at \in { "dlsym", "dlsym_done" } } }

\* an allocation request fn was served by the arena or by the underlying
\* allocator
allocated(g, fn, by) ==
  [g EXCEPT !.served = @ \cup { [fn |-> fn, by |-> by, resolving |-> Resolving] }]

\* the engine itself calls the wrapped primitives fns: each goes through its
\* wrapper, which passes it to the underlying symbol when force_libc is
\* raised and treats it as a call of the program otherwise
engine_calls(g, fns) ==
  [g EXCEPT !.nested =
     @ \cup { [fn |-> f, by |-> IF g.force_libc THEN "libc" ELSE "wrapper"] :
              f \in fns }]

\* a wrapper path that does not raise the flag
raise_skipped(g) == g

\* force_libc = true;
raise(g) == [g EXCEPT !.force_libc = TRUE]

\* an exit path that leaves the flag as it is
lower_skipped(g) == g

\* force_libc = false;
lower(g) == [g EXCEPT !.force_libc = FALSE]

\* a call_super that leaves use_early_allocator raised
call_super_noclear(g) == g

\* use_early_allocator = false;
call_super_clear(g) == [g EXCEPT !.use_early_allocator = FALSE]

\* the program's thread t makes its next call
ThreadCall ==
  \E t \in Threads :
     /\ thread[t].at = "idle"
     /\ thread[t].op < Len(ThreadScript(t))
     /\ TCommit(TCur, t,
                [thread[t] EXCEPT
                   !.op = @ + 1,
                   !.fn = ThreadScript(t)[thread[t].op + 1].fn,
                   !.ret = FALSE,
                   !.asked = FALSE,
                   !.at = IF ThreadScript(t)[thread[t].op + 1].fn = "malloc"
                            THEN "malloc" ELSE "call_super"])

\* malloc, around its handle_call
ThreadMalloc ==
  \E t \in Threads :
     \* if (use_early_allocator) return early_allocator(size);
     \/ /\ thread[t].at = "malloc"
        /\ IF use_early_allocator
             THEN TCommit(allocated(TCur, "malloc", "arena"), t,
                          [thread[t] EXCEPT !.ptr = ArenaPtr, !.at = "idle"])
             ELSE TCommit(TCur, t, TGoto(t, "handle_call"))
     \* the underlying malloc returns u; if (ret) track_create(...)
     \/ \E u \in LibcNew(PtrPool, live.mem) \cup {0} :
           /\ thread[t].at = "super"
           /\ thread[t].fn = "malloc"
           /\ IF u = 0
                THEN TCommit(TCur, t,
                             [thread[t] EXCEPT !.ptr = 0, !.at = "idle"])
                ELSE TCommit([allocated(TCur, "malloc", "libc")
                                EXCEPT !.live.mem = @ \cup {u}],
                             t, [thread[t] EXCEPT !.ptr = u,
                                                  !.at = "track_create"])

\* free: call_super(free, void, ptr); if (ptr) track_destroy(...).  The
\* underlying free of a block of the arena is undefined: the process dies of
\* it or goes on
ThreadFree ==
  \E t \in Threads, dies \in BOOLEAN :
     /\ thread[t].at = "super"
     /\ thread[t].fn = "free"
     /\ dies => thread[t].ptr = ArenaPtr
     /\ TCommit([TCur EXCEPT !.live.mem = @ \ { thread[t].ptr },
                             !.killed = dies],
                t, TGoto(t, IF thread[t].ptr # 0 THEN "track_destroy"
                                                ELSE "idle"))

\* handle_call: if (!force_libc && should_fail(#name))
HandleCall ==
  \E t \in Threads :
     /\ thread[t].at = "handle_call"
     /\ TCommit(TCur, t,
                TGoto(t, IF ~force_libc THEN "should_fail" ELSE "call_super"))

\* the steps of should_fail
ShouldFail ==
  \E t \in Threads :
     \* if (has_failed) return false;
     \/ /\ thread[t].at = "should_fail"
        /\ TCommit(TCur, t,
                   TGoto(t, IF has_failed THEN "call_super" ELSE "sf_raise"))
     \* force_libc = true;
     \/ /\ thread[t].at = "sf_raise"
        /\ TCommit(raise(TCur), t, TGoto(t, "sf_load"))
     \* if (!dbf) dbf = load_database();  the inserts of the load take the
     \* mutex one by one
     \/ /\ thread[t].at = "sf_load"
        /\ dbf # NULL \/ db = << >> \/ hash_table_mutex = 0
        /\ IF dbf = NULL
             THEN TCommit(engine_calls(load_database(TCur, "none"),
                                       { "fopen", "malloc", "free" }),
                          t, TGoto(t, "sf_callsite"))
             ELSE TCommit(TCur, t, TGoto(t, "sf_callsite"))
     \* h = get_current_callsite(); if (!h) goto out;
     \/ /\ thread[t].at = "sf_callsite"
        /\ IF get_current_callsite(TCur, ThreadFrames(t)) = NULL
             THEN TCommit(engine_calls(TCur, { "malloc", "free" }), t,
                          TGoto(t, "sf_lower"))
             ELSE TCommit(engine_calls(TCur, { "malloc" }), t,
                          TGoto(t, "sf_lock"))
     \* ret = hash_table_insert(h, callsite_table), which releases the
     \* mutex; if (!ret) free(h);
     \/ /\ thread[t].at = "sf_insert"
        /\ \E ins \in { hash_table_insert(
                          get_current_callsite(TCur, ThreadFrames(t)),
                          callsite_table) } :
              IF ins.ret = 0
                THEN TCommit(engine_calls([TCur EXCEPT !.hash_table_mutex = 0],
                                          { "free" }),
                             t, TGoto(t, "sf_lower"))
                ELSE TCommit([TCur EXCEPT !.callsite_table = ins.table,
                                          !.hash_table_mutex = 0],
                             t, TGoto(t, "sf_write"))
     \* write_callsite(dbf, h); print_injection();
     \/ /\ thread[t].at = "sf_write"
        /\ TCommit(engine_calls(
                     [write_callsite(TCur, "none",
                                     get_current_callsite(TCur, ThreadFrames(t)))
                        EXCEPT !.stderr = Append(@, [msg |-> "Injecting failure",
                                                     hash |-> NULL])],
                     { "fwrite", "fflush" }),
                   t, TGoto(t, "sf_set"))
     \* has_failed = true;
     \/ /\ thread[t].at = "sf_set"
        /\ TCommit([TCur EXCEPT !.has_failed = TRUE], t,
                   [thread[t] EXCEPT !.ret = TRUE, !.at = "sf_lower"])
     \* out: force_libc = false; return ret;  and in handle_call:
     \* errno = err_errno; return err_ret;
     \/ /\ thread[t].at = "sf_lower"
        /\ IF thread[t].ret
             THEN TCommit([lower(TCur) EXCEPT
                             !.injected =
                                Append(@, Fingerprint(ThreadFrames(t)))],
                          t, [thread[t] EXCEPT !.ptr = 0, !.at = "idle"])
             ELSE TCommit(lower(TCur), t, TGoto(t, "call_super"))

\* hash_table_insert, hash_table_pop: pthread_mutex_lock(&hash_table_mutex);
MutexLock ==
  \E t \in Threads :
     /\ thread[t].at \in { "sf_lock", "tc_lock", "td_lock" }
     /\ hash_table_mutex = 0
     /\ TCommit([TCur EXCEPT !.hash_table_mutex = t], t,
                TGoto(t, CASE thread[t].at = "sf_lock" -> "sf_insert"
                           [] thread[t].at = "tc_lock" -> "tc_insert"
                           [] thread[t].at = "td_lock" -> "td_pop"))

\* the steps of call_super
CallSuper ==
  \E t \in Threads :
     \* if (!__super) { use_early_allocator = true;
     \/ /\ thread[t].at = "call_super"
        /\ IF thread[t].fn \notin super
             THEN TCommit([TCur EXCEPT !.use_early_allocator = TRUE], t,
                          TGoto(t, "dlsym"))
             ELSE TCommit(TCur, t, TGoto(t, "super"))
     \* dlsym allocates (its error state, with calloc): the request comes to
     \* the library's calloc, which serves it from the arena when
     \* use_early_allocator is raised
     \/ /\ thread[t].at = "dlsym"
        /\ ~thread[t].asked
        /\ TCommit(allocated(TCur, "calloc",
                             IF use_early_allocator THEN "arena" ELSE "libc"),
                   t, [thread[t] EXCEPT !.asked = TRUE])
     \* __super = dlsym(RTLD_NEXT, #name);
     \/ /\ thread[t].at = "dlsym"
        /\ TCommit([TCur EXCEPT !.super = @ \cup { thread[t].fn }], t,
                   TGoto(t, "dlsym_done"))
     \* use_early_allocator = false; }
     \/ /\ thread[t].at = "dlsym_done"
        /\ TCommit(call_super_clear(TCur), t, TGoto(t, "super"))

\* the steps of track_create
TrackCreate ==
  \E t \in Threads :
     \* if (force_libc) return;
     \/ /\ thread[t].at = "track_create"
        /\ TCommit(TCur, t,
                   TGoto(t, IF force_libc THEN "idle" ELSE "tc_raise"))
     \* force_libc = true; h = create_hash_entry();
     \* h->backtrace = get_backtrace_string(); h->hash = hash;
     \/ /\ thread[t].at = "tc_raise"
        /\ TCommit(engine_calls(raise(TCur), { "malloc", "strdup" }), t,
                   TGoto(t, "tc_lock"))
     \* hash_table_insert(h, table), which releases the mutex
     \/ /\ thread[t].at = "tc_insert"
        /\ TCommit([TCur EXCEPT
                      !.allocation_table =
                         hash_table_insert(
                           Entry(U64(thread[t].ptr),
                                 get_backtrace_string(ThreadFrames(t))),
                           @).table,
                      !.hash_table_mutex = 0],
                   t, TGoto(t, "tc_lower"))
     \* force_libc = false;
     \/ /\ thread[t].at = "tc_lower"
        /\ TCommit(lower(TCur), t, TGoto(t, "idle"))

\* the steps of track_destroy
TrackDestroy ==
  \E t \in Threads :
     \* if (force_libc) return;
     \/ /\ thread[t].at = "track_destroy"
        /\ TCommit(TCur, t,
                   TGoto(t, IF force_libc THEN "idle" ELSE "td_raise"))
     \* force_libc = true;
     \/ /\ thread[t].at = "td_raise"
        /\ TCommit(raise(TCur), t, TGoto(t, "td_lock"))
     \* h = hash_table_pop(hash, table), which releases the mutex;
     \* if (!h) ... else { free(h->backtrace); free(h); }
     \/ /\ thread[t].at = "td_pop"
        /\ \E pop \in { hash_table_pop(U64(thread[t].ptr), allocation_table) } :
              IF pop.ret = NULL
                THEN TCommit([TCur EXCEPT !.hash_table_mutex = 0], t,
                             TGoto(t, "td_report"))
                ELSE TCommit(engine_calls(
                               [TCur EXCEPT !.allocation_table = pop.table,
                                            !.hash_table_mutex = 0],
                               { "free" }),
                             t, TGoto(t, "td_lower"))
     \* backtrace = get_backtrace_string(); if (!should_ignore_err(...)) {
     \* fprintf(stderr, msg, hash); print_backtrace(); found_bug = true; }
     \/ /\ thread[t].at = "td_report"
        /\ \E ign \in { should_ignore_err(
                          TCur, "none", get_backtrace_string(ThreadFrames(t)),
                          "IGNORE_UNTRACKED_FREES",
                          "IGNORE_ALL_UNTRACKED_FREES") } :
              IF ign.ret
                THEN TCommit(engine_calls(ign.st, { "strdup", "free" }), t,
                             TGoto(t, "td_lower"))
                ELSE TCommit(engine_calls(
                               [ign.st EXCEPT
                                  !.stderr =
                                     Append(@, [msg |-> "Attempted to free untracked pointer",
                                                hash |-> U64(thread[t].ptr)]),
                                  !.found_bug = TRUE],
                               { "strdup", "free" }),
                             t, TGoto(t, "td_lower"))
     \* force_libc = false;
     \/ /\ thread[t].at = "td_lower"
        /\ TCommit(lower(TCur), t, TGoto(t, "idle"))

\* both threads have returned; main returns and exit() runs check_leaks
ThreadsExit ==
  \E uaf \in UafOutcomes :
     /\ pc = "run"
     /\ \A t \in Threads :
           thread[t].at = "idle" /\ thread[t].op = Len(ThreadScript(t))
     /\ uaf = "intact" \/ allocation_table # EmptyTable
     /\ \E r \in { check_leaks(Cur, "none", uaf) } :
           /\ Commit(r)
           /\ pc' = IF r.killed THEN "killed" ELSE "done"
     /\ UNCHANGED << live, injected, prog, run, ncalls, db_entry, env_entry,
                     failed_before, last >>
     /\ UNCHANGED tvars

\* a process with no variable set, on an empty database or on one that
\* holds the record of an earlier run
ThreadInit ==
  /\ prog = << >>
  /\ callsite_table = EmptyTable
  /\ allocation_table = EmptyTable
  /\ fd_table = EmptyTable
  /\ file_table = EmptyTable
  /\ force_libc = FALSE
  /\ found_bug = FALSE
  /\ has_failed = FALSE
  /\ dbf = NULL
  /\ db \in { << >>, << Fingerprint(SiteA) >> }
  /\ env = EnvUnset
  /\ stderr = << >>
  /\ exit_status = 0
  /\ live = InitLive
  /\ pc = "run"
  /\ run = 1
  /\ ncalls = 0
  /\ db_entry = db
  /\ env_entry = EnvUnset
  /\ injected = << >>
  /\ failed_before = {}
  /\ last = NoCall
  /\ OneThread

ThreadNext ==
  \/ ThreadCall \/ ThreadMalloc \/ ThreadFree \/ HandleCall \/ ShouldFail
  \/ MutexLock \/ CallSuper \/ TrackCreate \/ TrackDestroy \/ ThreadsExit

ThreadSpec == ThreadInit /\ [][ThreadNext]_vars

(***************************************************************************)
(* The engine's pure operations on inputs of their own: the database       *)
(* loader on files of any records, the unwinder walk on stacks of any      *)
(* frames, the two table operations on any key, and the exit path on any   *)
(* value of its variable.                                                  *)
(***************************************************************************)
MaxRecords == 4      \* records of a database file given to the loader
MaxFrames  == 2      \* frames of a stack given to get_current_callsite
MaxText    == 3      \* characters of a value of an exit-code variable

SeqsUpTo(S, n) == UNION { [1 .. k -> S] : k \in 0 .. n }

\* a zero record, a record chained in the bucket of the zero record, and a
\* fingerprint the engine writes
RecordValues == { U64(0), U64(4096), Fingerprint(SiteA) }
RecordFiles  == SeqsUpTo(RecordValues, MaxRecords)

FramePool ==
  { Frame(t_run, 8), Frame(t_main, 26), Frame(t_main, 255), NoName(0),
    NoName(26), Frame(t_gcov, 4) }
UnitStacks == SeqsUpTo(FramePool, MaxFrames) \ { << >> }

\* '7', '1', '0', 'x', '-', ' '
TextChars == { 55, 49, 48, 120, 45, 32 }
ExitEnvs ==
  { EnvUnset } \cup
  { [EnvUnset EXCEPT ![v] = << t >>] :
      v \in { "EXIT_ERROR", "BUG_FOUND" }, t \in SeqsUpTo(TextChars, MaxText) }

UnitKeys   == PtrPool \cup ForeignPtrs
UnitTables == { "allocation_table", "fd_table" }

\* the operation applied last: on is the table or the variable it was
\* applied to, arg its argument and ret what it returned
UnitOp(fn, on, arg, ret) == [fn |-> fn, on |-> on, arg |-> arg, ret |-> ret]

UnitInit ==
  /\ callsite_table = EmptyTable
  /\ allocation_table = EmptyTable
  /\ fd_table = EmptyTable
  /\ file_table = EmptyTable
  /\ force_libc = FALSE
  /\ found_bug = FALSE
  /\ has_failed = FALSE
  /\ dbf = NULL
  /\ stderr = << >>
  /\ exit_status = 0
  /\ live = InitLive
  /\ run = 1
  /\ ncalls = 0
  /\ injected = << >>
  /\ failed_before = {}
  /\ last = UnitOp("none", "none", 0, 0)
  /\ OneThread
  /\ \/ /\ pc = "load_database"
        /\ db \in RecordFiles
        /\ env = EnvUnset
        /\ prog = << >>
     \/ /\ pc = "hash_table"
        /\ db = << >>
        /\ env = EnvUnset
        /\ prog = << >>
     \/ /\ pc = "__exit_error"
        /\ db = << >>
        /\ env \in ExitEnvs
        /\ prog = << >>
     \/ /\ pc = "get_current_callsite"
        /\ db = << >>
        /\ env \in { EnvUnset, [EnvUnset EXCEPT !["SKIP_INJECTION"] = << t_ru >>] }
        /\ prog \in { << Call("none", f) >> : f \in UnitStacks }
     \/ /\ pc = "early_allocator"
        /\ db = << >>
        /\ env = EnvUnset
        /\ prog = << >>
  /\ db_entry = db
  /\ env_entry = env

\* dbf = load_database()
UnitLoad ==
  /\ pc = "load_database"
  /\ \E fault \in { "none", "db_fread" } :
        \E r \in { load_database(Cur, fault) } :
           /\ Commit(r)
           /\ pc' = IF r.exiting THEN "exit" ELSE "loaded"
           /\ last' = UnitOp("load_database", "callsite_table", 0, 0)
  /\ UNCHANGED << live, prog, run, ncalls, db_entry, env_entry, injected,
                  failed_before >>
  /\ UNCHANGED tvars

\* h = get_current_callsite()
UnitCallsite ==
  /\ pc = "get_current_callsite"
  /\ pc' = "returned"
  /\ last' = UnitOp("get_current_callsite", "stack", 0,
                    get_current_callsite(Cur, prog[1].frames))
  /\ UNCHANGED << callsite_table, allocation_table, fd_table, file_table,
                  force_libc, found_bug, has_failed, dbf, db, env, stderr,
                  exit_status, live, prog, run, ncalls, db_entry, env_entry,
                  injected, failed_before >>
  /\ UNCHANGED tvars

\* ret = hash_table_insert(n, table) with n a fresh entry of hash k
UnitInsert ==
  /\ pc = "hash_table"
  /\ \E k \in UnitKeys, tb \in UnitTables :
        \E ins \in { hash_table_insert(Entry(U64(k), NULL), Cur[tb]) } :
           /\ Commit([Cur EXCEPT ![tb] = ins.table])
           /\ last' = UnitOp("hash_table_insert", tb, k, ins.ret)
  /\ UNCHANGED << pc, live, prog, run, ncalls, db_entry, env_entry, injected,
                  failed_before >>
  /\ UNCHANGED tvars

\* h = hash_table_pop(k, table)
UnitPop ==
  /\ pc = "hash_table"
  /\ \E k \in UnitKeys, tb \in UnitTables :
        \E pop \in { hash_table_pop(U64(k), Cur[tb]) } :
           /\ Commit([Cur EXCEPT ![tb] = pop.table])
           /\ last' = UnitOp("hash_table_pop", tb, k, pop.ret)
  /\ UNCHANGED << pc, live, prog, run, ncalls, db_entry, env_entry, injected,
                  failed_before >>
  /\ UNCHANGED tvars

\* __exit_error("FAILINJ_EXIT_ERROR", 32) and
\* __exit_error("FAILINJ_BUG_FOUND", 33)
UnitExitError ==
  /\ pc = "__exit_error"
  /\ \E v \in { "EXIT_ERROR", "BUG_FOUND" } :
        \E r \in { __exit_error(Cur, v, IF v = "EXIT_ERROR" THEN 32 ELSE 33) } :
           /\ Commit(r)
           /\ last' = UnitOp("__exit_error", v,
                             IF v = "EXIT_ERROR" THEN 32 ELSE 33, r.code)
  /\ pc' = "exit"
  /\ UNCHANGED << live, prog, run, ncalls, db_entry, env_entry, injected,
                  failed_before >>
  /\ UNCHANGED tvars

\* the request sizes, as size_t values: small ones, sizes around the size of
\* the arena, and sizes near 2^64
ArenaSizes ==
  { U64(0), U64(16), U64(4080), U64(4096), U64(4097), U64(-1), U64(-16),
    << 0, 0, 0, 32768 >> }

\* the arguments (nmemb, size) of calloc: products that fit, the product 2^64
\* and the product 2^64 - 8
ArenaCallocs ==
  { << U64(2), U64(8) >>, << U64(1), U64(4096) >>,
    << << 0, 0, 1, 0 >>, << 0, 0, 1, 0 >> >>,
    << << 65535, 65535, 65535, 8191 >>, U64(8) >> }

\* malloc(size) and calloc(nmemb, size) while use_early_allocator is raised:
\* return early_allocator(size) and return early_allocator(nmemb * size)
UnitEarlyAllocator ==
  /\ pc = "early_allocator"
  /\ Cardinality(served) < MaxCalls
  /\ \E size \in ArenaSizes \cup { Mul64(c[1], c[2]) : c \in ArenaCallocs } :
        \E r \in { early_allocator(pos, size) } :
           /\ pos' = r.pos
           /\ served' = served \cup { [n |-> Cardinality(served) + 1,
                                       size |-> size, ret |-> r.ret] }
           /\ last' = UnitOp("early_allocator", pos, size, r.ret)
  /\ UNCHANGED << callsite_table, allocation_table, fd_table, file_table,
                  force_libc, found_bug, has_failed, dbf, db, env, stderr,
                  exit_status, pc, live, prog, run, ncalls, db_entry,
                  env_entry, injected, failed_before >>
  /\ UNCHANGED << thread, hash_table_mutex, use_early_allocator, super,
                  nested >>

UnitNext ==
  \/ UnitLoad \/ UnitCallsite \/ UnitInsert \/ UnitPop \/ UnitExitError
  \/ UnitEarlyAllocator

UnitSpec == UnitInit /\ [][UnitNext]_vars

(***************************************************************************)
(* Properties                                                              *)
(***************************************************************************)
\* C1: in a run at most one wrapped call returns a synthetic failure: after
\* the injection decision has returned true once, no later call of the
\* process is failed.
C1_AtMostOneInjection == Len(injected) <= 1

\* a call that takes an injection decision at a site that is neither skipped
\* nor in the database is passed through, because a failure was injected
\* earlier in the run
C1_Witness ==
  /\ Len(injected) = 1
  /\ pc = "run"
  /\ last.fn \in { "calloc", "realloc", "fdopen", "fmemopen", "read", "fwrite" }
  /\ ~last.inj
  /\ Fingerprint(last.frames) \notin Range(db)
  /\ env_entry["SKIP_INJECTION"] = NULL

\* C2: once a failure has been injected in a run, the database is the
\* database at process start followed by one record, the fingerprint of the
\* failed call; so it is at exit.
C2_InjectionAppendsOneRecord ==
  injected # << >> => db = Append(db_entry, injected[1])

\* a run on a database that holds a record already has injected and ended
C2_Witness ==
  /\ pc = "done"
  /\ Len(injected) = 1
  /\ Len(db_entry) = 1

\* C3: over the runs on one database, no fingerprint is injected that was
\* injected in an earlier run or that the database held at process start,
\* and no fingerprint is twice in the database.
C3_OncePerCallSite ==
  /\ \A i \in 1 .. Len(injected) :
        /\ injected[i] \notin failed_before
        /\ injected[i] \notin Range(db_entry)
  /\ \A i, j \in 1 .. Len(db) : i # j => db[i] # db[j]

\* in a later run a call at a site that the database holds takes an
\* injection decision (nothing was injected yet) and is passed through
C3_Witness ==
  /\ run >= 2
  /\ pc = "run"
  /\ ~has_failed
  /\ last.fn \in { "malloc", "creat", "open", "fopen", "openat", "tmpfile" }
  /\ ~last.inj
  /\ Fingerprint(last.frames) \in Range(db_entry)
  /\ Fingerprint(last.frames) \in failed_before
  /\ env_entry["SKIP_INJECTION"] = NULL

\* C4: when the program is run again and again on a database that starts
\* empty, a run ends in which no failure was injected; and every run that
\* ends with an injection has injected exactly one failure and grown the
\* database by exactly one record.
C4_EventuallyNoInjection ==
  /\ <>(pc \in { "done", "aborted", "killed" } /\ injected = << >>)
  /\ [](pc \in { "done", "aborted", "killed" } /\ injected # << >>
          => Len(injected) = 1 /\ Len(db) = Len(db_entry) + 1)

\* the third run makes calls and ends with no injection, after two runs that
\* each added a record
C4_Witness ==
  /\ run = 3
  /\ pc = "done"
  /\ ncalls > 0
  /\ injected = << >>
  /\ Len(db) = 2
  /\ Cardinality(failed_before) = 2

\* the engine printed an internal-error message in this run
InternalError == \E i \in DOMAIN stderr : stderr[i].msg = "internal error"

\* C5 as stated: a run that completes with no injection leaves the callsite
\* table holding exactly the hashes the database held at process start.
C5_AsStated ==
  (pc = "done" /\ injected = << >> /\ ~InternalError)
    => Hashes(callsite_table) = Range(db_entry)

\* C5: a run that took an injection decision (the database was loaded) and
\* completes with no injection and no internal error leaves the callsite
\* table holding exactly the hashes the database held at process start.
C5_LoadedTableEqualsDatabase ==
  (pc = "done" /\ injected = << >> /\ ~InternalError /\ dbf # NULL)
    => Hashes(callsite_table) = Range(db_entry)

\* a run on a database of two records loaded it, made calls and completed
\* with no injection
C5_Witness ==
  /\ pc = "done"
  /\ injected = << >>
  /\ ~InternalError
  /\ dbf # NULL
  /\ Len(db_entry) = 2
  /\ ncalls > 0

\* frame f of a call is resolved and one of the tokens of v is a substring
\* of its symbol
TokenInSymbol(v, f) ==
  f.ok /\ \E k \in 1 .. Len(Tokens(v)) : strstr(f.name, Tokens(v)[k])

\* frame f is resolved and its symbol is one of the tokens of v
SymbolIsToken(v, f) ==
  f.ok /\ \E k \in 1 .. Len(Tokens(v)) : Tokens(v)[k] = f.name

\* frame f is resolved and its symbol is found within v
SymbolInValue(v, f) == f.ok /\ strstr(v, f.name)

\* C6 as stated: with SKIP_INJECTION set, a call that returns and has a frame
\* whose symbol contains one of the variable's tokens as a substring is not
\* failed and adds no record to the database.
C6_AsStated ==
  [][ ( /\ ncalls' = ncalls + 1
        /\ pc' = "run"
        /\ env["SKIP_INJECTION"] # NULL
        /\ \E i \in DOMAIN last'.frames :
              TokenInSymbol(env["SKIP_INJECTION"][1], last'.frames[i]) )
      => (~last'.inj /\ db' = db) ]_vars

\* C6: with SKIP_INJECTION set, a call with a frame whose symbol is one of
\* the variable's space-separated tokens is not failed and adds no record to
\* the database.
C6_TokenNamedFrameNotFailed ==
  [][ ( /\ ncalls' = ncalls + 1
        /\ env["SKIP_INJECTION"] # NULL
        /\ \E i \in DOMAIN last'.frames :
              SymbolIsToken(env["SKIP_INJECTION"][1], last'.frames[i]) )
      => (~last'.inj /\ db' = db) ]_vars

\* the first call of the first run, at a site with a frame named by a token,
\* was passed through though nothing had been injected or recorded
C6_Witness ==
  /\ env["SKIP_INJECTION"] # NULL
  /\ run = 1
  /\ ncalls = 1
  /\ last.fn \in { "malloc", "open", "fopen", "tmpfile" }
  /\ \E i \in DOMAIN last.frames :
        SymbolIsToken(env["SKIP_INJECTION"][1], last.frames[i])
  /\ ~last.inj
  /\ ~InternalError
  /\ db = << >>

\* C7: with SKIP_INJECTION set, a call with a frame whose resolved name is
\* found within the variable's value is not failed, its fingerprint is not
\* inserted into the callsite table nor appended to the database, and the
\* failed-once latch is left as it was, so later calls stay eligible.
C7_SkippedCallLeavesNoTrace ==
  [][ ( /\ ncalls' = ncalls + 1
        /\ env["SKIP_INJECTION"] # NULL
        /\ \E i \in DOMAIN last'.frames :
              SymbolInValue(env["SKIP_INJECTION"][1], last'.frames[i]) )
      => ( /\ ~last'.inj
           /\ db' = db
           /\ Hashes(callsite_table')
                 \subseteq Hashes(callsite_table) \cup Range(db)
           /\ has_failed' = has_failed ) ]_vars

\* after a skipped first call, the second call of the run, at a site that is
\* not skipped, was failed
C7_Witness ==
  /\ env["SKIP_INJECTION"] # NULL
  /\ ncalls = 2
  /\ \E i \in DOMAIN prog[1].frames :
        SymbolInValue(env["SKIP_INJECTION"][1], prog[1].frames[i])
  /\ last.inj
  /\ injected = << Fingerprint(last.frames) >>
  /\ Fingerprint(prog[1].frames) \notin Hashes(callsite_table)

\* the entries a table holds
Entries(table) == UNION { Range(table[b]) : b \in DOMAIN table }

\* the filter as the configuration describes it, on the variables as they
\* were set at process start: the blanket switch is set, or a token of the
\* list is a substring of the backtrace (or the backtrace is one of the
\* stdio buffers that are never counted as memory leaks)
Filtered(ignore_env, ignore_all_env, backtrace) ==
  \/ env_entry[ignore_all_env] # NULL
  \/ /\ ignore_env = "IGNORE_MEM_LEAKS"
     /\ (strstr(backtrace, t_doalloc) \/ strstr(backtrace, t_fopen))
  \/ /\ env_entry[ignore_env] # NULL
     /\ AnyTokenIn(backtrace, Tokens(env_entry[ignore_env][1]))

\* the number of reports msg for key hash that the step printed
NewReports(msg, hash) ==
  Cardinality({ i \in (Len(stderr) + 1) .. Len(stderr') :
                  stderr'[i].msg = msg /\ stderr'[i].hash = hash })

\* the scan of one table reported each entry that is not filtered once, and
\* no filtered entry
LeaksReported(table, ignore_env, ignore_all_env, msg) ==
  \A h \in Entries(table) :
     /\ NewReports(msg, h.hash)
          = IF Filtered(ignore_env, ignore_all_env, h.backtrace) THEN 0 ELSE 1
     /\ ~Filtered(ignore_env, ignore_all_env, h.backtrace) => found_bug'

\* C8 as stated: the shutdown scan reports every entry still in the
\* allocation, descriptor or stream table exactly once and sets the bug flag,
\* unless the entry's create-time backtrace is filtered; it reports nothing
\* else, and it leaves the three tables empty.
C8_AsStated ==
  [][ (pc = "exit" /\ pc' = "done")
      => ( /\ LeaksReported(allocation_table, "IGNORE_MEM_LEAKS",
                            "IGNORE_ALL_MEM_LEAKS", "Possible memory leak")
           /\ LeaksReported(fd_table, "IGNORE_FD_LEAKS", "IGNORE_ALL_FD_LEAKS",
                            "Possible file descriptor leak")
           /\ LeaksReported(file_table, "IGNORE_FILE_LEAKS",
                            "IGNORE_ALL_FILE_LEAKS", "Possible unclosed file")
           /\ Len(stderr') - Len(stderr)
                 <= Cardinality(Entries(allocation_table))
                      + Cardinality(Entries(fd_table))
                      + Cardinality(Entries(file_table))
           /\ allocation_table' = EmptyTable
           /\ fd_table' = EmptyTable
           /\ file_table' = EmptyTable ) ]_vars

\* call c released a resource: free of a pointer that is not NULL, a realloc
\* or fdopen that succeeded, close, fclose
Released(c) ==
  \/ c.fn \in { "close", "fclose" }
  \/ c.fn = "free" /\ c.arg # 0
  \/ c.fn \in { "realloc", "fdopen" } /\ ~c.inj /\ c.ret # 0

\* the table a release looks its key up in, of the three given
ReleaseTable(fn, alloc, fd, file) ==
  IF fn \in { "free", "realloc" } THEN alloc
  ELSE IF fn \in { "close", "fdopen" } THEN fd
  ELSE file

ReleaseEnv(fn) ==
  IF fn \in { "free", "realloc" } THEN "IGNORE_UNTRACKED_FREES"
  ELSE IF fn = "close" THEN "IGNORE_UNTRACKED_CLOSES"
  ELSE "IGNORE_UNTRACKED_FCLOSES"

ReleaseAllEnv(fn) ==
  IF fn \in { "free", "realloc" } THEN "IGNORE_ALL_UNTRACKED_FREES"
  ELSE IF fn = "close" THEN "IGNORE_ALL_UNTRACKED_CLOSES"
  ELSE "IGNORE_ALL_UNTRACKED_FCLOSES"

ReleaseMsg(fn) ==
  IF fn = "free" THEN "Attempted to free untracked pointer"
  ELSE IF fn = "realloc" THEN "Attempted to realloc untracked pointer"
  ELSE IF fn = "close" THEN "Attempted to close untracked file descriptor"
  ELSE IF fn = "fdopen" THEN "Attempted to fdopen untracked file descriptor"
  ELSE "Attempted to fclose untracked file"

\* the release c found its key absent from table T: one report and the bug
\* flag, unless filtered
UntrackedReported(c) ==
  /\ NewReports(ReleaseMsg(c.fn), U64(c.arg))
       = IF Filtered(ReleaseEnv(c.fn), ReleaseAllEnv(c.fn),
                     get_backtrace_string(c.frames)) THEN 0 ELSE 1
  /\ ~Filtered(ReleaseEnv(c.fn), ReleaseAllEnv(c.fn),
               get_backtrace_string(c.frames)) => found_bug'

\* the release c found its key in table T, and T2 is the table after it:
\* that entry is gone (realloc enters the block it returns) and nothing is
\* reported
TrackedRemoved(c, T, T2) ==
  /\ Hashes(T2) = (Hashes(T) \ { U64(c.arg) })
                    \cup (IF c.fn = "realloc" THEN { U64(c.ret) } ELSE {})
  /\ NewReports(ReleaseMsg(c.fn), U64(c.arg)) = 0

\* C9 as stated: a release by the program whose key is absent from its table
\* prints exactly one untracked-release report and sets the bug flag, unless
\* the category's ignore variables filter the current backtrace; a release
\* of a present key removes that entry and reports nothing.
C9_AsStated ==
  [][ (ncalls' = ncalls + 1 /\ pc' = "run" /\ Released(last'))
      => IF U64(last'.arg)
              \in Hashes(ReleaseTable(last'.fn, allocation_table, fd_table,
                                      file_table))
           THEN TrackedRemoved(last',
                               ReleaseTable(last'.fn, allocation_table,
                                            fd_table, file_table),
                               ReleaseTable(last'.fn, allocation_table',
                                            fd_table', file_table'))
           ELSE UntrackedReported(last') ]_vars

\* the exit status FAILINJ_BUG_FOUND asks for, 33 when it is unset or is not
\* a number
BugFoundStatus ==
  IF env_entry["BUG_FOUND"] = NULL THEN ExitStatus(33)
  ELSE ExitStatus(exit_code(strtol(env_entry["BUG_FOUND"][1]),
                            Len(env_entry["BUG_FOUND"][1]), 33))

\* C10 as stated: the process ends with the BUG_FOUND status whenever the bug
\* flag was set during the run or the shutdown scan, whatever status the
\* program chose; with the bug flag not set and no internal error it ends
\* with the status the program chose.
C10_AsStated ==
  [][ (pc = "exit" /\ pc' \in { "done", "aborted", "killed" })
      => ( /\ found_bug' => (pc' # "killed" /\ exit_status' = BugFoundStatus)
           /\ (~found_bug' /\ ~InternalError')
                 => (pc' # "killed" /\ exit_status' = exit_status) ) ]_vars

\* the exit status FAILINJ_EXIT_ERROR asks for, 32 when it is unset or is
\* not a number
ExitErrorStatus ==
  IF env_entry["EXIT_ERROR"] = NULL THEN ExitStatus(32)
  ELSE ExitStatus(exit_code(strtol(env_entry["EXIT_ERROR"][1]),
                            Len(env_entry["EXIT_ERROR"][1]), 32))

\* C11 as stated: a process in which the engine hit an internal error ends
\* with the EXIT_ERROR status, whatever the program holds and whatever the
\* bug flag is.
C11_AsStated ==
  (pc \in { "done", "aborted", "killed" } /\ InternalError)
    => (pc # "killed" /\ exit_status = ExitErrorStatus)


\* the wrappers' contract table: sentinel and errno of a synthetic failure
ContractSentinel(fn) ==
  CASE fn \in { "malloc", "calloc", "realloc", "fopen", "fmemopen", "tmpfile",
                "fdopen", "fwrite" } -> 0
    [] OTHER -> -1

ContractErrno(fn) ==
  CASE fn \in { "malloc", "calloc", "realloc" } -> "ENOMEM"
    [] fn \in { "open", "creat", "openat" } -> "EACCES"
    [] fn = "close" -> "EDQUOT"
    [] fn = "read" -> "EIO"
    [] fn = "write" -> "ENOSPC"
    [] fn = "fopen" -> "EACCES"
    [] fn = "fmemopen" -> "ENOMEM"
    [] fn = "tmpfile" -> "EROFS"
    [] fn = "fdopen" -> "EPERM"
    [] fn \in { "fclose", "fcloseall", "fwrite", "fflush" } -> "ENOSPC"

CallFirst ==
  { "malloc", "calloc", "realloc", "open", "creat", "openat", "read", "write",
    "fopen", "fdopen", "fmemopen", "tmpfile", "fwrite", "fflush" }

\* this step is a wrapped call of the program that returned a synthetic
\* failure
InjectedCall ==
  /\ pc = "run"
  /\ pc' = "run"
  /\ ncalls' = ncalls + 1
  /\ last'.inj

\* C12: a synthetic failure of malloc, calloc, realloc, open, creat, openat,
\* read, write, fopen, fdopen, fmemopen, tmpfile, fwrite or fflush returns the
\* sentinel and the errno of the contract table, the underlying primitive is
\* not invoked (what libc holds for the process is unchanged), and no
\* resource table changes, so that realloc's old pointer stays tracked.
C12_SyntheticFailureOnly ==
  [][ (InjectedCall /\ last'.fn \in CallFirst)
        => /\ last'.ret = ContractSentinel(last'.fn)
           /\ last'.errno = ContractErrno(last'.fn)
           /\ live' = live
           /\ allocation_table' = allocation_table
           /\ fd_table' = fd_table
           /\ file_table' = file_table ]_vars

\* realloc of a tracked pointer has been failed synthetically, and the
\* pointer is still held and tracked
C12_Witness ==
  /\ pc = "run"
  /\ last.inj
  /\ last.fn = "realloc"
  /\ last.arg \in live.mem
  /\ U64(last.arg) \in Hashes(allocation_table)
  /\ last.ret = 0
  /\ last.errno = "ENOMEM"

CloseLike == { "close", "fclose", "fcloseall" }

\* the resource the close-like call last' was made on is released and its
\* table holds no entry for it
ReleasedAndRemoved ==
  CASE last'.fn = "close" ->
         /\ last'.arg \notin live'.fd
         /\ U64(last'.arg) \notin Hashes(fd_table')
    [] last'.fn = "fclose" ->
         /\ last'.arg \notin live'.file
         /\ U64(last'.arg) \notin Hashes(file_table')
    [] last'.fn = "fcloseall" ->
         /\ live'.file = {}
         /\ file_table' = EmptyTable

\* C13: close, fclose and fcloseall call the underlying primitive first.  When
\* it fails its result is what the wrapper returns, no decision is taken (the
\* latch, the callsite table and the database handle keep their values) and
\* no record is written; a synthetic failure replaces a success only, and the
\* resource is then released and gone from its table.
C13_CloseLikeInjectsAfterSuccess ==
  [][ (pc = "run" /\ ncalls' = ncalls + 1 /\ last'.fn \in CloseLike)
        => /\ last'.under # 0
                => /\ ~last'.inj
                   /\ db' = db
                   /\ dbf' = dbf
                   /\ has_failed' = has_failed
                   /\ callsite_table' = callsite_table
                   /\ pc' = "run" => last'.ret = last'.under
           /\ last'.inj
                => /\ last'.under = 0
                   /\ last'.ret = ContractSentinel(last'.fn)
                   /\ last'.errno = ContractErrno(last'.fn)
                   /\ ReleasedAndRemoved ]_vars

\* a close that succeeded underneath has been failed synthetically: the
\* descriptor is closed and untracked, and a record was written for the call
C13_Witness ==
  /\ pc = "run"
  /\ last.fn = "close"
  /\ last.inj
  /\ last.under = 0
  /\ last.ret = -1
  /\ last.arg \notin live.fd
  /\ U64(last.arg) \notin Hashes(fd_table)
  /\ db # db_entry

\* the scan of one table reported no entry that the configuration filters
FilteredNotReported(table, ignore_env, ignore_all_env, msg) ==
  \A h \in Entries(table) :
     Filtered(ignore_env, ignore_all_env, h.backtrace)
       => NewReports(msg, h.hash) = 0

\* C14 as stated: at every leak check and every untracked-release check of a
\* run, a resource is ignored when the category's IGNORE_ALL variable is set
\* or a space-separated token of the category's IGNORE variable, as set at
\* process start, is a substring of the backtrace.
C14_AsStated ==
  [][ /\ (pc = "exit" /\ pc' = "done")
          => /\ FilteredNotReported(allocation_table, "IGNORE_MEM_LEAKS",
                                    "IGNORE_ALL_MEM_LEAKS",
                                    "Possible memory leak")
             /\ FilteredNotReported(fd_table, "IGNORE_FD_LEAKS",
                                    "IGNORE_ALL_FD_LEAKS",
                                    "Possible file descriptor leak")
             /\ FilteredNotReported(file_table, "IGNORE_FILE_LEAKS",
                                    "IGNORE_ALL_FILE_LEAKS",
                                    "Possible unclosed file")
      /\ (ncalls' = ncalls + 1 /\ pc' = "run" /\ Released(last')
            /\ Filtered(ReleaseEnv(last'.fn), ReleaseAllEnv(last'.fn),
                        get_backtrace_string(last'.frames)))
          => NewReports(ReleaseMsg(last'.fn), U64(last'.arg)) = 0 ]_vars

\* every entry of the table sits in the chain of its hash's bucket, and no
\* two entries of the table have the same hash
WellFormed(table) ==
  \A b \in DOMAIN table :
     /\ \A i \in 1 .. Len(table[b]) : Slot(table[b][i].hash) = b
     /\ \A i, j \in 1 .. Len(table[b]) :
           table[b][i].hash = table[b][j].hash => i = j

\* C20: whatever inserts and pops the run has made, none of the four tables
\* holds two entries with the same hash, and every entry is in the bucket
\* chain indexed by its hash AND 1023.
C20_TablesWellFormed ==
  /\ WellFormed(callsite_table)
  /\ WellFormed(allocation_table)
  /\ WellFormed(fd_table)
  /\ WellFormed(file_table)

\* a second process has loaded the callsite its predecessor recorded and met
\* it again (the insert of an equal hash is refused), and two blocks share a
\* bucket chain of the allocation table
C20_Witness ==
  /\ run >= 2
  /\ ncalls >= 2
  /\ Fingerprint(prog[1].frames) \in Hashes(callsite_table)
  /\ Fingerprint(prog[1].frames) \in failed_before
  /\ \E b \in DOMAIN allocation_table : Len(allocation_table[b]) >= 2

\* thread t is between two calls and holds a block that malloc returned
Holds(t) ==
  /\ thread[t].at = "idle"
  /\ thread[t].fn = "malloc"
  /\ thread[t].ptr # 0

Reported(msg) == \E i \in DOMAIN stderr : stderr[i].msg = msg

\* C15 as stated: with two threads, a block a thread got from malloc is in
\* the allocation table as long as the thread holds it, and a block created
\* once and released once is never reported as an untracked release or as a
\* leak.
C15_AsStated ==
  /\ \A t \in Threads :
        Holds(t) => U64(thread[t].ptr) \in Hashes(allocation_table)
  /\ ~Reported("Attempted to free untracked pointer")
  /\ ~Reported("Possible memory leak")

\* C16 as stated: with two threads, at most one call of the process returns
\* a synthetic failure and at most one record is appended to the database.
C16_AsStated ==
  /\ Len(injected) <= 1
  /\ Len(db) <= Len(db_entry) + 1

\* thread t is about to walk or change a bucket chain, to read or append to
\* the database, or to resolve an underlying symbol
SharedAccess(t) ==
  \/ thread[t].at \in { "sf_insert", "tc_insert", "td_pop" }
  \/ thread[t].at = "sf_load" /\ dbf = NULL
  \/ thread[t].at = "sf_write"
  \/ thread[t].at = "dlsym"

\* C17 as stated: a thread that accesses a bucket chain, the database or the
\* symbol resolver holds the mutex.
C17_AsStated ==
  \A t \in Threads : (pc = "run" /\ SharedAccess(t)) => hash_table_mutex = t

\* C18: while the program has a single thread, every wrapped primitive the
\* engine calls itself is passed to the underlying symbol: it is not failed
\* (the only synthetic failure is that of the program's call), not
\* fingerprinted (the callsite table holds database records and the
\* program's callsite only) and not tracked (the allocation table holds the
\* program's block only).
C18_EngineCallsBypass ==
  thread[2] = IdleThread
    => /\ \A n \in nested : n.by = "libc"
       /\ Len(injected) <= 1
       /\ Range(injected) \subseteq { Fingerprint(SiteA) }
       /\ Hashes(callsite_table)
             \subseteq Range(db_entry) \cup { Fingerprint(SiteA) }
       /\ Hashes(allocation_table) \subseteq { U64(thread[1].ptr) }

\* the single thread has loaded the database, got a tracked block and
\* released it: the engine called fopen, malloc, strdup and free itself
C18_Witness ==
  /\ thread[2] = IdleThread
  /\ thread[1].at = "idle"
  /\ thread[1].op = 2
  /\ { "fopen", "malloc", "strdup", "free" } \subseteq { n.fn : n \in nested }
  /\ dbf # NULL

\* C19 as stated: a request is served from the arena only while the
\* underlying malloc is being resolved.
C19_AsStated ==
  \A r \in served : r.by = "arena" => "malloc" \in r.resolving

\* C19: a request is served from the arena only while some thread is inside
\* the first resolution of an underlying symbol, of any primitive; the flag
\* is raised at no other moment.
C19_ArenaOnlyWhileResolving ==
  /\ \A r \in served : r.by = "arena" => r.resolving # {}
  /\ use_early_allocator => Resolving # {}

\* in a program with one thread a request was served from the arena while
\* free, not malloc, was being resolved
C19_Witness ==
  /\ thread[2] = IdleThread
  /\ \E r \in served :
        r.by = "arena" /\ "free" \in r.resolving /\ "malloc" \notin r.resolving

(***************************************************************************)
(* The database loader                                                     *)
(***************************************************************************)
ZeroAt(f) == { i \in 1 .. Len(f) : f[i] = U64(0) }

\* the last record read when the loader stops at the second of two
\* consecutive zero records
ConsecutiveZeroStop(f) ==
  IF \E i \in ZeroAt(f) : i - 1 \in ZeroAt(f)
    THEN CHOOSE i \in ZeroAt(f) :
            /\ i - 1 \in ZeroAt(f)
            /\ \A j \in ZeroAt(f) : j - 1 \in ZeroAt(f) => i <= j
    ELSE Len(f)

\* the last record read when the loader stops at the second zero record of
\* the file, wherever the first one is
SecondZeroStop(f) ==
  IF \E i, j \in ZeroAt(f) : i < j
    THEN CHOOSE j \in ZeroAt(f) :
            /\ \E i \in ZeroAt(f) : i < j
            /\ \A k \in ZeroAt(f) : (\E i \in ZeroAt(f) : i < k) => j <= k
    ELSE Len(f)

FirstAt(f, h) == CHOOSE i \in 1 .. Len(f) :
                   f[i] = h /\ \A j \in 1 .. (i - 1) : f[j] # h

\* the chains hold the records in the order of the file
InFileOrder(table, f) ==
  \A b \in DOMAIN table :
     \A i, j \in 1 .. Len(table[b]) :
        i < j => FirstAt(f, table[b][i].hash) < FirstAt(f, table[b][j].hash)

Loaded == pc = "loaded" /\ last.fn = "load_database"

\* C21 as stated: the load reads the records in file order and inserts each one
\* up to end of file, and stops earlier only when two consecutive zero
\* records have been read.
C21_AsStated ==
  Loaded =>
    Hashes(callsite_table) = { db[i] : i \in 1 .. ConsecutiveZeroStop(db) }

\* C21: a load that returns has read the records in file order and inserted
\* each one, up to end of file or up to the second zero record of the file
\* (consecutive to the first or not), whichever comes first; the records
\* after that second zero record are not loaded.
C21_LoadStopsAtSecondZero ==
  Loaded =>
    /\ Hashes(callsite_table) = { db[i] : i \in 1 .. SecondZeroStop(db) }
    /\ InFileOrder(callsite_table, db)
    /\ WellFormed(callsite_table)
    /\ db = db_entry

\* a file whose second zero record does not follow the first and is followed
\* by a record found nowhere before it has been loaded
C21_Witness ==
  /\ Loaded
  /\ SecondZeroStop(db) < Len(db)
  /\ ConsecutiveZeroStop(db) = Len(db)
  /\ db[Len(db)] \notin Hashes(callsite_table)

(***************************************************************************)
(* The database file within a run                                          *)
(***************************************************************************)
IsPrefix(p, f) == Len(p) <= Len(f) /\ SubSeq(f, 1, Len(p)) = p

\* the engine decided to fail a call of this run: the call was failed, or
\* the process ended on an internal error on the way
DecidedOrFailed == injected # << >> \/ InternalError

SymbolOffsetText(f) ==
  (IF f.ok THEN f.name ELSE t_unknown) \o t_plus0x \o ToHex(f.off)

\* "<symbol>+0x<offset>", and "unknown" alone when the lookup failed
HashedText(f) ==
  IF f.ok THEN f.name \o t_plus0x \o ToHex(f.off) ELSE t_unknown

RECURSIVE ConcatSymbolOffset(_)
ConcatSymbolOffset(frames) ==
  IF frames = << >> THEN << >>
  ELSE SymbolOffsetText(Head(frames)) \o ConcatSymbolOffset(Tail(frames))

RECURSIVE ConcatHashed(_)
ConcatHashed(frames) ==
  IF frames = << >> THEN << >>
  ELSE HashedText(Head(frames)) \o ConcatHashed(Tail(frames))

\* get_current_callsite returned an entry for the stack of the call
Fingerprinted ==
  /\ pc = "returned"
  /\ last.fn = "get_current_callsite"
  /\ last.ret # NULL

\* C23 as stated: the fingerprint is the djb fold, from the seed 53815381, over
\* the concatenation, innermost frame first, of "<symbol>+0x<offset>" for
\* every frame, with the symbol "unknown" for a frame whose lookup fails.
C23_AsStated ==
  Fingerprinted =>
    last.ret.hash = djb_hash(ConcatSymbolOffset(prog[1].frames), HASH_INIT)

\* C23: the fingerprint of a call that is not skipped is the djb fold, from
\* the seed 53815381, over the concatenation, innermost frame first, of
\* "<symbol>+0x<offset>" for every frame whose lookup succeeds and of
\* "unknown" alone, with no offset, for every frame whose lookup fails; it
\* depends on nothing else, so equal frame sequences get equal fingerprints.
C23_FingerprintIsFoldOfFrames ==
  Fingerprinted =>
    /\ last.ret.hash = djb_hash(ConcatHashed(prog[1].frames), HASH_INIT)
    /\ last.ret.hash = Fingerprint(prog[1].frames)
    /\ last.ret.backtrace = NULL

\* a stack of a frame whose lookup failed, with an offset left in the
\* variable, above a frame with a symbol has been fingerprinted
C23_Witness ==
  /\ Fingerprinted
  /\ Len(prog[1].frames) = 2
  /\ ~prog[1].frames[1].ok
  /\ prog[1].frames[1].off # 0
  /\ prog[1].frames[2].ok

(***************************************************************************)
(* Which call is failed                                                    *)
(***************************************************************************)
\* this step is a wrapped call of the program
WrappedCall == pc = "run" /\ ncalls' = ncalls + 1

\* the fingerprints the callsite table holds once the database is loaded
SeenSites ==
  Hashes(callsite_table) \cup (IF dbf = NULL THEN Range(db) ELSE {})

\* a frame of the call is named within the value of FAILINJ_SKIP_INJECTION
SkippedCall ==
  /\ env["SKIP_INJECTION"] # NULL
  /\ \E i \in DOMAIN last'.frames :
        SymbolInValue(env["SKIP_INJECTION"][1], last'.frames[i])

\* the call of this step is one the engine may fail; free has no failure
\* and takes no decision
EligibleCall ==
  /\ ~force_libc
  /\ ~SkippedCall
  /\ Fingerprint(last'.frames) \notin SeenSites
  /\ last'.fn \in CloseLike => last'.under = 0
  /\ last'.fn # "free"

\* C24: a call is failed only if it is eligible (flag lowered, fingerprint
\* not skipped and not in the callsite table, and for close, fclose and
\* fcloseall an underlying call that returned success) and no call of the run
\* was failed before it; an eligible call that returns while no call of the
\* run has been failed is failed, so the failed call is the first eligible
\* one in program order; once a call has been failed no later call is failed
\* and nothing is added to the callsite table or the database.
C24_FirstEligibleCallFails ==
  [][ WrappedCall
        => /\ last'.inj => (EligibleCall /\ injected = << >>)
           /\ (EligibleCall /\ injected = << >> /\ pc' = "run") => last'.inj
           /\ injected # << >>
                => /\ ~last'.inj
                   /\ db' = db
                   /\ callsite_table' = callsite_table ]_vars

\* after the first call of the run was failed, a call at a site the database
\* does not hold has returned what the underlying read returned
C24_Witness ==
  /\ pc = "run"
  /\ ncalls = 2
  /\ Len(injected) = 1
  /\ last.fn = "read"
  /\ ~last.inj
  /\ Fingerprint(last.frames) \notin Range(db)
  /\ Fingerprint(last.frames) \notin Hashes(callsite_table)

(***************************************************************************)
(* The record is written before the failure is delivered                   *)
(***************************************************************************)
\* the step ended in exit_error()
InternalErrorNow == NewReports("internal error", NULL) > 0

\* the step inserted the fingerprint of the call into the callsite table and
\* then ended in exit_error(): write_callsite is the only call between the
\* insertion and the return that can fail
WriteFailed ==
  /\ InternalErrorNow
  /\ Fingerprint(last'.frames) \notin SeenSites
  /\ Fingerprint(last'.frames) \in Hashes(callsite_table')

\* C25: when a wrapper returns a synthetic failure, the file holds the
\* fingerprint of that call as its last record, appended by this call; when
\* the append or the flush fails, exit_error() has printed its message and
\* called exit(), the call does not return and nothing is delivered.
C25_RecordedBeforeDelivered ==
  [][ WrappedCall
        => /\ last'.inj
                => /\ db' = Append(db, Fingerprint(last'.frames))
                   /\ ~InternalErrorNow
                   /\ pc' = "run"
           /\ WriteFailed
                => /\ ~last'.inj
                   /\ injected' = injected
                   /\ pc' = "exit"
                   /\ exit_status' = ExitErrorStatus
                   /\ IsPrefix(db, db')
                   /\ Len(db') <= Len(db) + 1 ]_vars

\* the flush of the record of a call failed: the process is on its way out
\* and the call was not failed
C25_Witness ==
  /\ pc = "exit"
  /\ InternalError
  /\ ~last.inj
  /\ injected = << >>
  /\ Fingerprint(last.frames) \in Hashes(callsite_table)
  /\ Fingerprint(last.frames) \notin Range(db_entry)

(***************************************************************************)
(* realloc                                                                 *)
(***************************************************************************)
\* this step is a call of realloc(p, sz) that returned r to the program
ReallocReturned ==
  /\ pc = "run"
  /\ pc' = "run"
  /\ ncalls' = ncalls + 1
  /\ last'.fn = "realloc"

\* C26: after a realloc(p, sz) that returned r # NULL the allocation table
\* holds r, also when r = p, and does not hold p when p # r, and holds what it
\* held of the other blocks; after a realloc that returned NULL, because the
\* underlying call failed or because the engine failed the call, the
\* allocation table is what it was.
C26_ReallocMovesEntry ==
  [][ ReallocReturned
        => /\ last'.ret # 0
                => /\ ~last'.inj
                   /\ Hashes(allocation_table')
                        = (Hashes(allocation_table) \ { U64(last'.arg) })
                             \cup { U64(last'.ret) }
                   /\ WellFormed(allocation_table')
           /\ last'.ret = 0 => allocation_table' = allocation_table
           /\ fd_table' = fd_table
           /\ file_table' = file_table ]_vars

\* a tracked block was moved by realloc: the new block is tracked and the
\* old one is not
C26_Witness ==
  /\ pc = "run"
  /\ last.fn = "realloc"
  /\ last.arg \in PtrPool
  /\ last.ret \in PtrPool \ { last.arg }
  /\ U64(last.ret) \in Hashes(allocation_table)
  /\ U64(last.arg) \notin Hashes(allocation_table)

(***************************************************************************)
(* fdopen                                                                  *)
(***************************************************************************)
\* this step is a call of fn by the program that returned
Returned(fn) ==
  /\ pc = "run"
  /\ pc' = "run"
  /\ ncalls' = ncalls + 1
  /\ last'.fn = fn

\* the step printed no untracked-release report
NoUntrackedReport ==
  \A i \in (Len(stderr) + 1) .. Len(stderr') :
     stderr'[i].msg \notin { ReleaseMsg(fn) : fn \in { "free", "realloc", "close",
                                                      "fdopen", "fclose" } }

\* every leak report of the step is for a key its table held
LeakReportsAreEntries ==
  \A i \in (Len(stderr) + 1) .. Len(stderr') :
     /\ stderr'[i].msg = "Possible file descriptor leak"
          => stderr'[i].hash \in Hashes(fd_table)
     /\ stderr'[i].msg = "Possible unclosed file"
          => stderr'[i].hash \in Hashes(file_table)

\* C27: a successful fdopen of a tracked descriptor takes the descriptor out
\* of the descriptor table and puts the stream into the stream table, and
\* reports nothing; fclose of a tracked stream takes it out of the stream
\* table, leaves the descriptor table alone and reports nothing, so neither
\* table holds it; the shutdown scan reports only keys the tables hold; a
\* fdopen that fails, really or by injection, leaves both tables as they
\* were, and close then takes the descriptor out of the descriptor table.
C27_FdopenMovesDescriptor ==
  [][ /\ (Returned("fdopen") /\ last'.ret # 0
            /\ U64(last'.arg) \in Hashes(fd_table))
          => /\ Hashes(fd_table') = Hashes(fd_table) \ { U64(last'.arg) }
             /\ Hashes(file_table') = Hashes(file_table) \cup { U64(last'.ret) }
             /\ NoUntrackedReport
             /\ found_bug' = found_bug
      /\ (Returned("fdopen") /\ last'.ret = 0)
          => /\ fd_table' = fd_table
             /\ file_table' = file_table
             /\ NoUntrackedReport
      /\ (Returned("fclose") /\ U64(last'.arg) \in Hashes(file_table))
          => /\ Hashes(file_table') = Hashes(file_table) \ { U64(last'.arg) }
             /\ fd_table' = fd_table
             /\ NoUntrackedReport
             /\ found_bug' = found_bug
      /\ (Returned("close") /\ U64(last'.arg) \in Hashes(fd_table))
          => /\ Hashes(fd_table') = Hashes(fd_table) \ { U64(last'.arg) }
             /\ NoUntrackedReport
      /\ LeakReportsAreEntries ]_vars

\* open, fdopen on its descriptor and fclose on the stream all returned
\* success; neither table holds anything and the bug flag is down
C27_Witness ==
  /\ pc = "run"
  /\ ncalls = 3
  /\ last.fn = "fclose"
  /\ last.arg \in FilePool
  /\ last.ret = 0
  /\ live.fd = ForeignFds
  /\ fd_table = EmptyTable
  /\ file_table = EmptyTable
  /\ ~found_bug
  /\ stderr = << >>

(***************************************************************************)
(* fcloseall                                                               *)
(***************************************************************************)
\* C28 as stated: a call of fcloseall empties the stream table, whatever the
\* underlying call returns and whether or not the call is failed, and leaves
\* the allocation and descriptor tables as they were; the shutdown scan that
\* follows finds no stream to report.
C28_AsStated ==
  [][ (pc = "run" /\ ncalls' = ncalls + 1 /\ last'.fn = "fcloseall")
        => /\ file_table' = EmptyTable
           /\ allocation_table' = allocation_table
           /\ fd_table' = fd_table
           /\ pc' \in { "run", "exit" } ]_vars

(***************************************************************************)
(* The two table operations                                                *)
(***************************************************************************)
\* the table the operation last' was applied to, before and after it
TableBefore ==
  IF last'.on = "allocation_table" THEN allocation_table ELSE fd_table

TableAfter ==
  IF last'.on = "allocation_table" THEN allocation_table' ELSE fd_table'

\* the tables the operation last' was not applied to are as they were
OtherTablesUnchanged ==
  /\ callsite_table' = callsite_table
  /\ file_table' = file_table
  /\ last'.on = "allocation_table" => fd_table' = fd_table
  /\ last'.on = "fd_table" => allocation_table' = allocation_table

\* the chain without its entries of hash h
Without(chain, h) == SelectSeq(chain, LAMBDA e : e.hash # h)

\* the entries of T2 with a hash other than h are the entries of T, each in
\* its bucket and in its place among them
OthersKept(T, T2, h) ==
  \A b \in DOMAIN T : Without(T2[b], h) = Without(T[b], h)

\* C29: insert returns 1 and adds the entry exactly when the table holds no
\* entry of that hash, and otherwise returns 0 and changes nothing; pop
\* returns and removes the entry of the hash it is given exactly when the
\* table holds one, and otherwise returns NULL and changes nothing; the other
\* entries, those chained in the same bucket included, and the other tables
\* are as they were.
C29_InsertAndPop ==
  [][ /\ last'.fn = "hash_table_insert"
          => /\ (last'.ret = 1) = (U64(last'.arg) \notin Hashes(TableBefore))
             /\ last'.ret \in { 0, 1 }
             /\ last'.ret = 1
                  => /\ Hashes(TableAfter)
                          = Hashes(TableBefore) \cup { U64(last'.arg) }
                     /\ OthersKept(TableBefore, TableAfter, U64(last'.arg))
                     /\ WellFormed(TableAfter)
             /\ last'.ret = 0 => TableAfter = TableBefore
             /\ OtherTablesUnchanged
      /\ last'.fn = "hash_table_pop"
          => /\ (last'.ret # NULL) = (U64(last'.arg) \in Hashes(TableBefore))
             /\ last'.ret # NULL
                  => /\ last'.ret.hash = U64(last'.arg)
                     /\ \E i \in DOMAIN TableBefore[Slot(U64(last'.arg))] :
                           TableBefore[Slot(U64(last'.arg))][i] = last'.ret
                     /\ Hashes(TableAfter)
                          = Hashes(TableBefore) \ { U64(last'.arg) }
                     /\ OthersKept(TableBefore, TableAfter, U64(last'.arg))
             /\ last'.ret = NULL => TableAfter = TableBefore
             /\ OtherTablesUnchanged ]_vars

\* the first of two entries chained in one bucket has been popped and the
\* second is still in the table, and the other table holds an entry
C29_Witness ==
  /\ pc = "hash_table"
  /\ last.fn = "hash_table_pop"
  /\ last.on = "allocation_table"
  /\ last.ret # NULL
  /\ last.ret.hash = U64(4096)
  /\ allocation_table[Slot(U64(4096))] = << Entry(U64(5120), NULL) >>
  /\ fd_table # EmptyTable

(***************************************************************************)
(* The exit-code variables                                                 *)
(***************************************************************************)
AllIn(t, S) == \A i \in DOMAIN t : t[i] \in S

\* a numeral of the C language, without sign: hexadecimal after 0x or 0X,
\* octal after 0, decimal otherwise
IsNumeral(t) ==
  \/ /\ Len(t) >= 3
     /\ t[1] = 48
     /\ t[2] \in { 120, 88 }
     /\ AllIn(SubSeq(t, 3, Len(t)), (48 .. 57) \cup (97 .. 102) \cup (65 .. 70))
  \/ /\ Len(t) >= 1
     /\ t[1] = 48
     /\ AllIn(t, 48 .. 55)
  \/ /\ Len(t) >= 1
     /\ t[1] \in 49 .. 57
     /\ AllIn(t, 48 .. 57)

RECURSIVE NumeralIn(_, _)
NumeralIn(t, base) ==
  IF t = << >> THEN 0
  ELSE NumeralIn(SubSeq(t, 1, Len(t) - 1), base) * base + DigitVal(t[Len(t)])

NumeralValue(t) ==
  IF Len(t) >= 2 /\ t[2] \in { 120, 88 } THEN NumeralIn(SubSeq(t, 3, Len(t)), 16)
  ELSE IF t[1] = 48 THEN NumeralIn(t, 8)
  ELSE NumeralIn(t, 10)

\* the text after its leading white space
RECURSIVE Unspaced(_)
Unspaced(t) == IF t # << >> /\ IsSpace(t[1]) THEN Unspaced(Tail(t)) ELSE t

Signed(t) == t # << >> /\ t[1] \in { 43, 45 }

\* the whole of v is an integer: white space, an optional sign, a numeral,
\* and nothing after it
WholeInteger(v) ==
  IF Signed(Unspaced(v)) THEN IsNumeral(Tail(Unspaced(v)))
  ELSE IsNumeral(Unspaced(v))

IntegerValue(v) ==
  IF Signed(Unspaced(v))
    THEN (IF Unspaced(v)[1] = 45 THEN 0 - NumeralValue(Tail(Unspaced(v)))
          ELSE NumeralValue(Tail(Unspaced(v))))
    ELSE NumeralValue(Unspaced(v))

\* __exit_error(last.on, last.arg) has called exit()
ExitErrorCalled == pc = "exit" /\ last.fn = "__exit_error"

\* C30: the status given to exit() is the value of the variable when the
\* variable is set and the whole of its value is an integer, and the default
\* (32 for EXIT_ERROR, 33 for BUG_FOUND) when it is unset, empty, or has
\* characters that are not part of the number.
C30_WholeIntegerReplacesDefault ==
  ExitErrorCalled =>
    /\ last.arg = (IF last.on = "EXIT_ERROR" THEN 32 ELSE 33)
    /\ exit_status =
         IF env[last.on] # NULL /\ WholeInteger(env[last.on][1])
           THEN ExitStatus(IntegerValue(env[last.on][1]))
           ELSE ExitStatus(last.arg)
    /\ env = env_entry

\* BUG_FOUND holds a number followed by a letter and the default was used
C30_Witness ==
  /\ ExitErrorCalled
  /\ last.on = "BUG_FOUND"
  /\ env["BUG_FOUND"] = << << 55, 120 >> >>
  /\ exit_status = 33

(***************************************************************************)
(* The reentrancy flag in a single-threaded run                            *)
(***************************************************************************)
\* the second thread has not made a call: the run is single-threaded so far
SingleThreaded == thread[2] = IdleThread

\* the code of should_fail, track_create and track_destroy before the flag
\* is raised, and between "force_libc = true" and "force_libc = false"
BeforeRaise == { "should_fail", "sf_raise", "tc_raise", "td_raise" }

BetweenRaiseAndLower ==
  { "sf_load", "sf_callsite", "sf_lock", "sf_insert", "sf_write", "sf_set",
    "sf_lower", "tc_lock", "tc_insert", "tc_lower", "td_lock", "td_pop",
    "td_report", "td_lower" }

\* C31: in a single-threaded run the flag is lowered whenever the program
\* runs (no thread is inside a wrapper and the process has not begun to
\* shut down); the bodies of should_fail, track_create and track_destroy are
\* entered with the flag lowered; and from the statement that raises it to
\* the statement of the same function that lowers it the flag stays raised,
\* the calls the engine makes in between going to the underlying primitives.
C31_FlagRaisedAndLoweredInPairs ==
  (SingleThreaded /\ pc = "run")
    => /\ thread[1].at = "idle" => ~force_libc
       /\ thread[1].at \in BeforeRaise => ~force_libc
       /\ thread[1].at \in BetweenRaiseAndLower => force_libc
       /\ thread[1].at \in { "malloc", "handle_call" } => ~force_libc
       /\ \A n \in nested : n.by = "libc"

\* the only thread has made its malloc and its free and is back in the
\* program, with the flag lowered
C31_Witness ==
  /\ SingleThreaded
  /\ pc = "run"
  /\ thread[1].at = "idle"
  /\ thread[1].op = 2
  /\ nested # {}
  /\ ~force_libc

(***************************************************************************)
(* freopen                                                                 *)
(***************************************************************************)
\* C32 as stated: a freopen(path, mode, old) that is not failed by the engine
\* has made the underlying freopen on old (which returns old reopened, or
\* NULL with old closed); when it returns f # NULL the stream table holds f
\* and, when old # f, does not hold old.
C32_AsStated ==
  [][ (Returned("freopen") /\ ~last'.inj)
        => /\ \/ last'.ret = last'.arg /\ last'.arg \in live'.file
              \/ last'.ret = 0 /\ last'.arg \notin live'.file
           /\ live'.fd = live.fd
           /\ last'.ret # 0
                => /\ U64(last'.ret) \in Hashes(file_table')
                   /\ last'.ret # last'.arg
                        => U64(last'.arg) \notin Hashes(file_table') ]_vars

(***************************************************************************)
(* Freed entries                                                           *)
(***************************************************************************)
\* C33 as stated: the scan of the tables at shutdown and the loop of
\* fcloseall never read a field of an entry they have freed.  The loops then
\* do not depend on what freed memory holds, and neither the fcloseall wrapper
\* nor the destructor ends the process on a pointer read from a freed entry:
\* a step of either leaves the run in a state other than "killed".
C33_AsStated ==
  [][ (last'.fn = "fcloseall" \/ pc = "exit") => pc' # "killed" ]_vars

(***************************************************************************)
(* Releasing NULL                                                          *)
(***************************************************************************)
\* C34 as stated: a free(NULL) that returns, and a realloc(NULL, sz) that
\* returns a block r # NULL, print no untracked-release report and leave the
\* bug flag as it was, and r is in the allocation table.
C34_AsStated ==
  [][ ( /\ last'.arg = 0
        /\ \/ Returned("free")
           \/ Returned("realloc") /\ last'.ret # 0 )
        => /\ NoUntrackedReport
           /\ found_bug' = found_bug
           /\ last'.fn = "realloc"
                => U64(last'.ret) \in Hashes(allocation_table') ]_vars

(***************************************************************************)
(* The filters and the environment                                         *)
(***************************************************************************)
\* the environment is what it was at process start
EnvironmentKept == \A v \in EnvNames : env[v] = env_entry[v]

\* in the current state, two evaluations in a row of the filter
\* (ignore_env, ignore_all_env) on backtrace decide the same
SameDecisionTwice(backtrace, ignore_env, ignore_all_env) ==
  should_ignore_err(
      should_ignore_err(Cur, "none", backtrace, ignore_env, ignore_all_env).st,
      "none", backtrace, ignore_env, ignore_all_env).ret
    = should_ignore_err(Cur, "none", backtrace, ignore_env, ignore_all_env).ret

\* C35 as stated: the environment of the process is never changed by the
\* engine, whatever filters it has evaluated, and evaluating the leak filter
\* of a table twice on the backtrace of one of its entries gives the same
\* decision.
C35_AsStated ==
  /\ EnvironmentKept
  /\ \A h \in Entries(allocation_table) :
        SameDecisionTwice(h.backtrace, "IGNORE_MEM_LEAKS", "IGNORE_ALL_MEM_LEAKS")
  /\ \A h \in Entries(fd_table) :
        SameDecisionTwice(h.backtrace, "IGNORE_FD_LEAKS", "IGNORE_ALL_FD_LEAKS")
  /\ \A h \in Entries(file_table) :
        SameDecisionTwice(h.backtrace, "IGNORE_FILE_LEAKS", "IGNORE_ALL_FILE_LEAKS")

(***************************************************************************)
(* The early allocator                                                     *)
(***************************************************************************)
\* the region of size bytes at offset off of early_mem lies inside the array
InArena(off, size) ==
  /\ ~Lt64(U64(early_mem_size), off)
  /\ ~Lt64(Sub64(U64(early_mem_size), off), size)

\* two regions inside the array that share no byte
Disjoint(a, b) ==
  \/ ~Lt64(a.ret[1], Add64(b.ret[1], b.size))
  \/ ~Lt64(b.ret[1], Add64(a.ret[1], a.size))

\* a request of size bytes fits behind the p bytes handed out
Fits(p, size) == ~Lt64(U64(early_mem_size - p), size)

\* C36 as stated: every non-null region early_allocator returns lies inside
\* the 4096 bytes of early_mem and shares no byte with a region returned
\* before; a request that does not fit behind the bytes handed out returns
\* NULL and leaves pos as it was.  For every size_t request size.
C36_AsStated ==
  [][ pc = "early_allocator"
        => /\ \A r \in served' :
                r.ret # NULL
                  => /\ InArena(r.ret[1], r.size)
                     /\ \A q \in served' :
                           (q.n < r.n /\ q.ret # NULL) => Disjoint(q, r)
           /\ ~Fits(pos, last'.arg) => (last'.ret = NULL /\ pos' = pos) ]_vars

====
